---- MODULE Spec2Model ----
(***************************************************************************)
(* Optimus: queue-and-lifecycle substrate, worker loop and evaluator.      *)
(* The shared store (queues and keys) is the only state shared between     *)
(* the submission front-end and the workers; every store command and       *)
(* every engine call is one atomic step of the process that issues it.     *)
(***************************************************************************)
EXTENDS Integers, Sequences, FiniteSets, TLC

\* ------------------------------------------------------------------ bounds
MaxJobs == 2            \* job ids the front-end mints in one behaviour
MaxTests == 3           \* test cases in one submitted job
MaxCancelTargets == 1   \* job ids that clients ask to cancel in one behaviour
MaxScored == 2          \* test cases of a job whose scoring is examined on its own
U32Values == 256        \* values of a u32 in the model: weights and scores have 8 bits

\* ------------------------------------------------------- program constants
DefaultMaxAttempts == 3 \* JobMetadata::default().max_attempts
MaxParallelJobs == 1    \* WorkerConfig::from_env default

Languages == {"python", "java"}
Workers == {"w1", "w2"}
\* every modelled worker process is bound to the same language
BoundLanguage == "python"

JobIds == 1..MaxJobs
\* id 0 is that of a payload found in the store that no submit of this run produced
AllIds == {0} \cup JobIds
\* the job ids cancel requests are issued for
CancelTargets == JobIds \cap (1..MaxCancelTargets)

\* default_weight() of a test case
DefaultWeight == 10

\* the safety limits of submit_job
MAX_TEST_CASES == 100
MAX_SOURCE_CODE_SIZE == 100000
MAX_INPUT_SIZE == 10000
MAX_EXPECTED_OUTPUT_SIZE == 10000
MaxTimeoutMs == 60000
DefaultTimeoutMs == 5000

\* ------------------------------------------------------------------ strings
\* strings are sequences of characters; whitespace is " " and "\n"
WS == {" ", "\n"}

RECURSIVE trim_start(_)
trim_start(s) ==
    IF s # <<>> /\ Head(s) \in WS THEN trim_start(Tail(s)) ELSE s

RECURSIVE trim_end(_)
trim_end(s) ==
    IF s # <<>> /\ s[Len(s)] \in WS THEN trim_end(SubSeq(s, 1, Len(s) - 1)) ELSE s

trim(s) == trim_end(trim_start(s))

\* ------------------------------------------------------------------- types
NoReason == "none"

JobMetadataDefault ==
    [attempts |-> 0, max_attempts |-> DefaultMaxAttempts, last_failure_reason |-> NoReason]

TestCase(i, w) ==
    [id |-> i, input |-> <<"i">>, expected_output |-> <<"a", "\n">>, weight |-> w]

\* a source_code string, reduced to its byte length and whether trim() leaves nothing
SourceCode(len, blank) == [len |-> len, blank |-> blank]

\* the job submit_job builds
JobRequest(j, lang, source_code, tcs, timeout_ms) ==
    [id |-> j, language |-> lang, source_code |-> source_code, test_cases |-> tcs,
     timeout_ms |-> timeout_ms, metadata |-> JobMetadataDefault]

\* the value of a worker's `job` variable while it holds none
NoJob ==
    [id |-> -1, language |-> "none", source_code |-> SourceCode(0, TRUE), test_cases |-> <<>>,
     timeout_ms |-> 0, metadata |-> JobMetadataDefault]

\* request bodies (the weights of the test cases) with at most n test cases;
\* test i of a request weighs 10, 15, 20, ...
RequestBodies(n) ==
    {[i \in 1..k |-> DefaultWeight + 5 * (i - 1)] : k \in 1..n}

\* what one behaviour starts from and submits: MaxJobs jobs of one test case
\* each; or one job of up to MaxTests test cases, with or without a payload of
\* another language already in the main queue the workers consume
Scenarios ==
    {[jobs |-> MaxJobs, tests |-> 1, misrouted |-> FALSE]}
    \cup {[jobs |-> 1, tests |-> MaxTests, misrouted |-> b] : b \in BOOLEAN}

\* u32 `+` and `+=` as a build without overflow checks computes them
AddU32(a, b) == (a + b) % U32Values

\* job.test_cases.iter().map(|tc| tc.weight).sum(), folded from the left
RECURSIVE SumWeights(_)
SumWeights(tcs) ==
    IF tcs = <<>> THEN 0
    ELSE AddU32(SumWeights(SubSeq(tcs, 1, Len(tcs) - 1)), tcs[Len(tcs)].weight)

\* ------------------------------------------------------------------ engine
\* exit_code stays None when wait_container yields no status
NoExitCode == -1

\* markers execute_in_container appends to the captured stderr; a marker is
\* one character of the model's strings, after the newline that precedes it
TimeoutMarker == <<"\n", "[Execution timed out]">>
OomMarker == <<"\n", "[Container killed: likely OOM or exceeded memory limit]">>
SegvMarker == <<"\n", "[Container killed: segmentation fault]">>

\* what one container run can do: the infrastructure fails before the run
\* (image pull, create, start), the timer fires first (stdout and stderr are
\* what the log stream had delivered by then), or the program exits
ContainerRuns ==
    {[kind |-> "infra_error", code |-> NoExitCode, stdout |-> <<>>, stderr |-> <<>>],
     [kind |-> "timeout", code |-> NoExitCode, stdout |-> <<"b">>, stderr |-> <<>>],
     [kind |-> "exit", code |-> 0, stdout |-> <<" ", "a">>, stderr |-> <<>>],
     [kind |-> "exit", code |-> 0, stdout |-> <<"b">>, stderr |-> <<>>],
     [kind |-> "exit", code |-> 1, stdout |-> <<" ", "a">>, stderr |-> <<"e">>]}

\* faulty variant: the marker replaces the captured stderr
Classify_MarkerOnly(run) ==
    [test_id |-> 0, stdout |-> run.stdout,
     stderr |-> IF run.code = 137 THEN OomMarker
                ELSE IF run.code = 139 THEN SegvMarker
                ELSE run.stderr,
     timed_out |-> FALSE,
     runtime_error |-> (run.code # NoExitCode /\ run.code # 0)]

\* the Ok arm of `match timeout_result`: the run finished within the timeout
Classify(run) ==
    [test_id |-> 0, stdout |-> run.stdout,
     stderr |-> IF run.code = 137 THEN run.stderr \o OomMarker
                ELSE IF run.code = 139 THEN run.stderr \o SegvMarker
                ELSE run.stderr,
     timed_out |-> FALSE,
     runtime_error |-> (run.code # NoExitCode /\ run.code # 0)]

\* faulty variant: the output captured before the timer fired is returned
TimedOut_KeepsPartial(run) ==
    [test_id |-> 0, stdout |-> run.stdout, stderr |-> run.stderr \o TimeoutMarker,
     timed_out |-> TRUE, runtime_error |-> FALSE]

\* the Err arm: the timer fired first; what was captured is dropped
TimedOut(run) ==
    [test_id |-> 0, stdout |-> <<>>, stderr |-> TimeoutMarker,
     timed_out |-> TRUE, runtime_error |-> FALSE]

\* DockerEngine::execute_in_container: Err for an infrastructure failure,
\* else Ok(TestExecutionOutput) with test_id 0
execute_in_container(run) ==
    IF run.kind = "infra_error"
    THEN [ok |-> FALSE,
          output |-> [test_id |-> 0, stdout |-> <<>>, stderr |-> <<>>,
                      timed_out |-> FALSE, runtime_error |-> FALSE]]
    ELSE IF run.kind = "timeout"
    THEN [ok |-> TRUE, output |-> TimedOut(run)]
    ELSE [ok |-> TRUE, output |-> Classify(run)]

\* body of the test loop of execute_job_async after the cancellation probe:
\* the output pushed for test_case when the container run is `run`
TestOutput(test_case, run) ==
    LET r == execute_in_container(run)
        output == IF r.ok THEN r.output
                  ELSE [test_id |-> test_case.id, stdout |-> <<>>,
                        stderr |-> <<"Docker execution error">>,
                        timed_out |-> FALSE, runtime_error |-> TRUE]
    IN [output EXCEPT !.test_id = test_case.id]

\* --------------------------------------------------------------- evaluator
\* job.test_cases.iter().find(|tc| tc.id == test_id)
FindTestCase(tcs, test_id) ==
    LET idx == {i \in 1..Len(tcs) : tcs[i].id = test_id}
    IN tcs[CHOOSE i \in idx : \A k \in idx : i <= k]

\* faulty variant: the timeout is looked at before the runtime error
TestStatusOf_TimeoutFirst(test_case, output) ==
    IF output.timed_out THEN "time_limit_exceeded"
    ELSE IF output.runtime_error THEN "runtime_error"
    ELSE IF trim(output.stdout) = trim(test_case.expected_output) THEN "passed"
    ELSE "failed"

TestStatusOf(test_case, output) ==
    IF output.runtime_error THEN "runtime_error"
    ELSE IF output.timed_out THEN "time_limit_exceeded"
    ELSE IF trim(output.stdout) = trim(test_case.expected_output) THEN "passed"
    ELSE "failed"

\* the loop of evaluate: [total_score, test_results] after all outputs
RECURSIVE EvalLoop(_, _, _, _)
EvalLoop(tcs, outputs, total_score, test_results) ==
    IF outputs = <<>> THEN [total_score |-> total_score, test_results |-> test_results]
    ELSE LET output == Head(outputs)
             test_case == FindTestCase(tcs, output.test_id)
             status == TestStatusOf(test_case, output)
         IN EvalLoop(tcs, Tail(outputs),
                     IF status = "passed" THEN AddU32(total_score, test_case.weight)
                     ELSE total_score,
                     Append(test_results,
                            [test_id |-> output.test_id, status |-> status,
                             stdout |-> output.stdout, stderr |-> output.stderr]))

\* faulty variant: max_score summed over the executed test cases only
evaluate_MaxOverExecuted(job, outputs) ==
    LET l == EvalLoop(job.test_cases, outputs, 0, <<>>)
    IN [job_id |-> job.id,
        overall_status |-> IF l.total_score > 0 THEN "completed" ELSE "failed",
        score |-> l.total_score,
        max_score |-> SumWeights(SubSeq(job.test_cases, 1, Len(outputs))),
        results |-> l.test_results]

\* faulty variant: completed as soon as one test passed
evaluate_AnyPassed(job, outputs) ==
    LET l == EvalLoop(job.test_cases, outputs, 0, <<>>)
    IN [job_id |-> job.id,
        overall_status |-> IF \E i \in 1..Len(l.test_results) : l.test_results[i].status = "passed"
                           THEN "completed" ELSE "failed",
        score |-> l.total_score,
        max_score |-> SumWeights(job.test_cases),
        results |-> l.test_results]

evaluate(job, outputs) ==
    LET l == EvalLoop(job.test_cases, outputs, 0, <<>>)
    IN [job_id |-> job.id,
        overall_status |-> IF l.total_score > 0 THEN "completed" ELSE "failed",
        score |-> l.total_score,
        max_score |-> SumWeights(job.test_cases),
        results |-> l.test_results]

\* faulty variant: max_score left at 0
cancelled_result_NoMax(job) ==
    [job_id |-> job.id, overall_status |-> "cancelled", score |-> 0,
     max_score |-> 0, results |-> <<>>]

\* the result the worker builds itself when it executes nothing
cancelled_result(job) ==
    [job_id |-> job.id, overall_status |-> "cancelled", score |-> 0,
     max_score |-> SumWeights(job.test_cases), results |-> <<>>]

failed_result(job) ==
    [job_id |-> job.id, overall_status |-> "failed", score |-> 0,
     max_score |-> SumWeights(job.test_cases), results |-> <<>>]

NoResult == [job_id |-> -1, overall_status |-> "none", score |-> 0, max_score |-> 0, results |-> <<>>]

\* faulty variant: the evaluation is returned as it is
execute_docker_result_Plain(j, outs, stopped) == evaluate(j, outs)

\* executor::execute_docker once execute_job_async has returned: the outputs
\* are evaluated, and a run the cancellation probe stopped is marked cancelled
execute_docker_result(j, outs, stopped) ==
    IF stopped THEN [evaluate(j, outs) EXCEPT !.overall_status = "cancelled"]
    ELSE evaluate(j, outs)

\* ------------------------------------------------------------------- state
VARIABLES
    mainQ,        \* optimus:queue:<lang>         (list, head first)
    retryQ,       \* optimus:queue:<lang>:retry
    dlq,          \* optimus:queue:<lang>:dlq
    resultKey,    \* optimus:result:<job_id>      (<<>> absent, <<r>> present)
    statusKey,    \* optimus:status:<job_id>
    controlKey,   \* optimus:control:<job_id>
    events,       \* completion events published per job id
    nextId,       \* the next job id Uuid::new_v4 yields
    cancelPc,     \* cancel request in flight per job id
    pc,           \* per worker: its position in worker_loop
    job,          \* per worker: the job it popped
    outputs,      \* per worker: outputs accumulated by execute_job_async
    result,       \* per worker: the ExecutionResult about to be stored
    permits,      \* per worker process: available semaphore permits
    limits,       \* the scenario of this behaviour (never changes)
    io,           \* history: "err" when the last step was a worker's and a store
                  \* command of that step failed, else "ok"
    http,         \* history: the response a handler sent in the last step, if any
                  \* (for submit_job together with the request)
    early,        \* history, per job id: the flag was set while the job waited in
                  \* the main lane, and no read of its control key has failed since
    popInfo,      \* history, per worker: the lanes as the pop it has just made found them
    ePc,          \* execute_in_container: the await the current call is suspended on
    calls,        \* execute_in_container: calls started so far
    containers,   \* Docker: per container id "absent", "created", "running", "exited", "removed"
    guard,        \* the container id the call's ContainerGuard holds (0: no guard)
    cleanups,     \* removal tasks spawned by ContainerGuard::drop that have not run yet
    removals,     \* per container id: remove_container calls Docker has served
    runtime,      \* the tokio runtime: "up", or "down" once main has returned
    ret,          \* what the last call of execute_in_container returned (<<>>: none yet)
    captured,     \* history: what the wait of the current call yielded (<<>>: not yet)
    kills,        \* per container id: kill_container calls issued
    sJob,         \* scoring: the job handed to evaluate or to a result constructor
    sOutputs,     \* scoring: the outputs handed to evaluate
    sReturned,    \* scoring: what the call made of them
    tally         \* history, per job id: calls of execute_docker made for the job and
                  \* pushes of the job to a retry lane that succeeded

store == <<mainQ, retryQ, dlq, resultKey, statusKey, controlKey, events>>
frontend == <<nextId, cancelPc, limits>>
worker == <<pc, job, outputs, result, permits, popInfo>>
engine == <<ePc, calls, containers, guard, cleanups, removals, runtime, ret, captured, kills>>
scoring == <<sJob, sOutputs, sReturned>>
vars == <<mainQ, retryQ, dlq, resultKey, statusKey, controlKey, events,
          nextId, cancelPc, pc, job, outputs, result, permits, limits, io, http,
          early, popInfo, ePc, calls, containers, guard, cleanups, removals, runtime,
          ret, captured, kills, sJob, sOutputs, sReturned, tally>>

\* the containers one job's test cases can create, numbered in creation order
ContainerIds == 1..MaxTests

\* a payload of another language left in this language's main queue
MisroutedJob ==
    JobRequest(0, "java", SourceCode(1, FALSE), <<TestCase(1, DefaultWeight)>>, DefaultTimeoutMs)

NoPop == [src |-> "none", main_len |-> 0, retry_len |-> 0]

\* no response was sent in the last step
NoResponse == [op |-> "none", code |-> 0, job_id |-> 0]
\* the response of cancel_job, and that of submit_job with the request it
\* answers (job id 0: no job was built)
Response(code, j) == [op |-> "cancel", code |-> code, job_id |-> j]
SubmitResponse(code, j, req) ==
    [op |-> "submit", code |-> code, job_id |-> j, request |-> req]

\* job id j has a payload in a lane of Q
InLane(Q, j) == \E l \in Languages : \E i \in 1..Len(Q[l]) : Q[l][i].id = j

\* a step that answers no cancel request and reads no control key
Silent == http' = NoResponse /\ early' = early

\* the state of the program once the front-end and the workers have started
Boot ==
    /\ limits \in Scenarios
    /\ mainQ = [l \in Languages |->
                   IF l = BoundLanguage /\ limits.misrouted THEN <<MisroutedJob>> ELSE <<>>]
    /\ retryQ = [l \in Languages |-> <<>>]
    /\ dlq = [l \in Languages |-> <<>>]
    /\ resultKey = [j \in AllIds |-> <<>>]
    /\ statusKey = [j \in AllIds |-> <<>>]
    /\ controlKey = [j \in AllIds |-> <<>>]
    /\ events = [j \in AllIds |-> 0]
    /\ nextId = 1
    /\ cancelPc = [j \in JobIds |-> "idle"]
    /\ pc = [w \in Workers |-> "pop"]
    /\ job = [w \in Workers |-> NoJob]
    /\ outputs = [w \in Workers |-> <<>>]
    /\ result = [w \in Workers |-> NoResult]
    /\ permits = [w \in Workers |-> MaxParallelJobs]
    /\ io = "ok"
    /\ http = NoResponse
    /\ early = [j \in JobIds |-> FALSE]
    /\ popInfo = [w \in Workers |-> NoPop]
    /\ ePc = "idle"
    /\ calls = 0
    /\ containers = [c \in ContainerIds |-> "absent"]
    /\ guard = 0
    /\ cleanups = {}
    /\ removals = [c \in ContainerIds |-> 0]
    /\ runtime = "up"
    /\ ret = <<>>
    /\ captured = <<>>
    /\ kills = [c \in ContainerIds |-> 0]
    /\ tally = [j \in AllIds |-> [executions |-> 0, retries |-> 0]]

\* no scoring call has returned
NotReturned == [kind |-> "none", by |-> "none", value |-> NoResult]

Init ==
    /\ Boot
    /\ sJob = NoJob
    /\ sOutputs = <<>>
    /\ sReturned = NotReturned

\* ------------------------------------------------------------ store (redis)
Outcome(ok) == IF ok THEN "ok" ELSE "err"

\* faulty variant: LPUSH, the payload goes to the head of the lane
push_job_Lpush(j) == mainQ' = [mainQ EXCEPT ![j.language] = <<j>> \o @]

\* RPUSH payload at the tail of the lane of the job's language
push_job(j) == mainQ' = [mainQ EXCEPT ![j.language] = Append(@, j)]

\* faulty variant: the payload pushed has lost its first test case
push_to_retry_queue_Truncated(j) ==
    retryQ' = [retryQ EXCEPT ![j.language] = Append(@, [j EXCEPT !.test_cases = Tail(@)])]

push_to_retry_queue(j) == retryQ' = [retryQ EXCEPT ![j.language] = Append(@, j)]

push_to_dlq(j) == dlq' = [dlq EXCEPT ![j.language] = Append(@, j)]

\* faulty variant: the keys of the BLPOP in the other order
PopSource_RetryFirst(lang) ==
    IF retryQ[lang] # <<>> THEN "retry"
    ELSE IF mainQ[lang] # <<>> THEN "main"
    ELSE "none"

\* BLPOP [main, retry]: the head of the first non-empty list
PopSource(lang) ==
    IF mainQ[lang] # <<>> THEN "main"
    ELSE IF retryQ[lang] # <<>> THEN "retry"
    ELSE "none"

\* faulty variant: an absent control key reads as cancelled
is_job_cancelled_AbsentIsSet(j) ==
    IF controlKey[j] = <<>> THEN TRUE ELSE controlKey[j][1].cancelled

\* Ok(cancelled) of is_job_cancelled when the GET succeeds
is_job_cancelled(j) ==
    IF controlKey[j] = <<>> THEN FALSE ELSE controlKey[j][1].cancelled

\* a cancellation probe takes its Ok(true) branch: the read succeeded and the
\* flag is set (a failed read is logged and execution proceeds)
ReadOutcomes == {"ok", "err"}
\* faulty variant: a failed read counts as a cancellation
ProbeSaysCancelled_FailsClosed(j, r) == IF r = "err" THEN TRUE ELSE is_job_cancelled(j)

ProbeSaysCancelled(j, r) == IF r = "err" THEN FALSE ELSE is_job_cancelled(j)

\* store_result_with_metrics: SET result, SET status, PUBLISH; `f` is the
\* command that fails first ("none": all succeed)
StoreOutcomes == {"none", "set_result", "set_status", "publish"}

\* faulty variant: the event is published before the keys are written
store_result_with_metrics_PublishFirst(res, f) ==
    /\ resultKey' = IF f = "set_result" THEN resultKey
                    ELSE [resultKey EXCEPT ![res.job_id] = <<res>>]
    /\ statusKey' = IF f \in {"set_result", "set_status"} THEN statusKey
                    ELSE [statusKey EXCEPT ![res.job_id] = <<res.overall_status>>]
    /\ events' = IF f # "publish" THEN [events EXCEPT ![res.job_id] = @ + 1] ELSE events
    /\ io' = Outcome(f = "none")

store_result_with_metrics(res, f) ==
    /\ resultKey' = IF f = "set_result" THEN resultKey
                    ELSE [resultKey EXCEPT ![res.job_id] = <<res>>]
    /\ statusKey' = IF f \in {"set_result", "set_status"} THEN statusKey
                    ELSE [statusKey EXCEPT ![res.job_id] = <<res.overall_status>>]
    /\ events' = IF f = "none" THEN [events EXCEPT ![res.job_id] = @ + 1] ELSE events
    /\ io' = Outcome(f = "none")

\* ---------------------------------------------------------------- front-end
\* a SubmitRequest, its strings reduced to what the handler looks at: the
\* byte length, and for source_code whether trim() leaves nothing
SubmitRequest(lang, source_len, source_blank, tests, timeout_ms) ==
    [language |-> lang, source_len |-> source_len, source_blank |-> source_blank,
     tests |-> tests, timeout_ms |-> timeout_ms]

TestCaseInput(input_len, expected_len, weight) ==
    [input_len |-> input_len, expected_len |-> expected_len, weight |-> weight]

\* the request of the default size whose test cases weigh as body says
RequestOf(lang, body) ==
    SubmitRequest(lang, 1, FALSE,
                  [i \in 1..Len(body) |-> TestCaseInput(1, 2, body[i])], DefaultTimeoutMs)

\* faulty variant: the limits are compared with >= instead of >
Validate_OffByOne(req) ==
    IF Len(req.tests) = 0 THEN "no_test_cases"
    ELSE IF Len(req.tests) >= MAX_TEST_CASES THEN "too_many_test_cases"
    ELSE IF req.source_len >= MAX_SOURCE_CODE_SIZE THEN "source_code_too_large"
    ELSE IF req.source_blank THEN "empty_source_code"
    ELSE IF \E i \in 1..Len(req.tests) :
               /\ req.tests[i].input_len > MAX_INPUT_SIZE
               /\ \A k \in 1..(i - 1) : req.tests[k].expected_len <= MAX_EXPECTED_OUTPUT_SIZE
         THEN "test_case_input_too_large"
    ELSE IF \E i \in 1..Len(req.tests) : req.tests[i].expected_len > MAX_EXPECTED_OUTPUT_SIZE
         THEN "test_case_output_too_large"
    ELSE IF req.timeout_ms = 0 \/ req.timeout_ms >= MaxTimeoutMs THEN "invalid_timeout"
    ELSE "accepted"

\* the safety checks of submit_job in their order: the tag of the first that
\* rejects, or "accepted"
Validate(req) ==
    IF Len(req.tests) = 0 THEN "no_test_cases"
    ELSE IF Len(req.tests) > MAX_TEST_CASES THEN "too_many_test_cases"
    ELSE IF req.source_len > MAX_SOURCE_CODE_SIZE THEN "source_code_too_large"
    ELSE IF req.source_blank THEN "empty_source_code"
    ELSE IF \E i \in 1..Len(req.tests) :
               /\ req.tests[i].input_len > MAX_INPUT_SIZE
               /\ \A k \in 1..(i - 1) : req.tests[k].expected_len <= MAX_EXPECTED_OUTPUT_SIZE
         THEN "test_case_input_too_large"
    ELSE IF \E i \in 1..Len(req.tests) : req.tests[i].expected_len > MAX_EXPECTED_OUTPUT_SIZE
         THEN "test_case_output_too_large"
    ELSE IF req.timeout_ms = 0 \/ req.timeout_ms > MaxTimeoutMs THEN "invalid_timeout"
    ELSE "accepted"

\* faulty variant: the test case ids are the indices of enumerate()
submit_job_ZeroBased(req, ok) ==
    /\ io' = "ok"
    /\ early' = early
    /\ IF Validate(req) # "accepted"
       THEN /\ http' = SubmitResponse(400, 0, req)
            /\ UNCHANGED <<mainQ, nextId>>
       ELSE LET test_cases == [i \in 1..Len(req.tests) |-> TestCase(i - 1, req.tests[i].weight)]
                j == JobRequest(nextId, req.language,
                                SourceCode(req.source_len, req.source_blank), test_cases,
                                req.timeout_ms)
            IN /\ nextId' = nextId + 1
               /\ IF ok THEN push_job(j) ELSE mainQ' = mainQ
               /\ http' = SubmitResponse(IF ok THEN 201 ELSE 500, nextId, req)
    /\ UNCHANGED <<retryQ, dlq, resultKey, statusKey, controlKey, events, cancelPc, limits, engine, scoring, tally>>
    /\ UNCHANGED worker

\* handlers::submit_job: 400 for a request that fails a safety check; else
\* the job is built and pushed: 201, or 500 when the push fails
submit_job(req, ok) ==
    /\ io' = "ok"
    /\ early' = early
    /\ IF Validate(req) # "accepted"
       THEN /\ http' = SubmitResponse(400, 0, req)
            /\ UNCHANGED <<mainQ, nextId>>
       ELSE LET test_cases == [i \in 1..Len(req.tests) |-> TestCase(i, req.tests[i].weight)]
                j == JobRequest(nextId, req.language,
                                SourceCode(req.source_len, req.source_blank), test_cases,
                                req.timeout_ms)
            IN /\ nextId' = nextId + 1
               /\ IF ok THEN push_job(j) ELSE mainQ' = mainQ
               /\ http' = SubmitResponse(IF ok THEN 201 ELSE 500, nextId, req)
    /\ UNCHANGED <<retryQ, dlq, resultKey, statusKey, controlKey, events, cancelPc, limits, engine, scoring, tally>>
    /\ UNCHANGED worker

\* the submissions of a behaviour: requests of the scenario's shape
Submit(lang, body, ok) ==
    /\ nextId <= limits.jobs
    /\ body \in RequestBodies(limits.tests)
    /\ submit_job(RequestOf(lang, body), ok)

\* handlers::get_job_result for a well-formed id: what a status lookup of job
\* j answers when get_result succeeds (ok) or fails; it writes nothing
get_job_result(j, ok) ==
    IF ~ok THEN [code |-> 500, status |-> "error"]
    ELSE IF resultKey[j] # <<>> THEN [code |-> 200, status |-> resultKey[j][1].overall_status]
    ELSE [code |-> 202, status |-> "pending"]

\* faulty variant: the result key is not looked at
CancelLookup_NoConflict(j, ok) ==
    /\ j < nextId
    /\ j \in CancelTargets
    /\ cancelPc[j] = "idle"
    /\ IF ~ok THEN cancelPc' = cancelPc /\ http' = Response(500, j)
       ELSE cancelPc' = [cancelPc EXCEPT ![j] = "set"] /\ http' = NoResponse
    /\ io' = "ok"
    /\ UNCHANGED <<store, nextId, limits, worker, early, engine, scoring, tally>>

\* handlers::cancel_job up to the result lookup: 500 when get_result fails,
\* 409 when a result exists, else on to set_job_cancelled
CancelLookup(j, ok) ==
    /\ j < nextId
    /\ j \in CancelTargets
    /\ cancelPc[j] = "idle"
    /\ IF ~ok THEN cancelPc' = cancelPc /\ http' = Response(500, j)
       ELSE IF resultKey[j] # <<>> THEN cancelPc' = cancelPc /\ http' = Response(409, j)
       ELSE cancelPc' = [cancelPc EXCEPT ![j] = "set"] /\ http' = NoResponse
    /\ io' = "ok"
    /\ UNCHANGED <<store, nextId, limits, worker, early, engine, scoring, tally>>

\* faulty variant: the cancel also marks the job's status key cancelled
CancelSet_MarksStatus(j, ok) ==
    /\ cancelPc[j] = "set"
    /\ cancelPc' = [cancelPc EXCEPT ![j] = "idle"]
    /\ controlKey' = IF ok THEN [controlKey EXCEPT ![j] = <<[cancelled |-> TRUE]>>]
                     ELSE controlKey
    /\ statusKey' = IF ok THEN [statusKey EXCEPT ![j] = <<"cancelled">>] ELSE statusKey
    /\ http' = Response(IF ok THEN 200 ELSE 500, j)
    /\ early' = IF ok /\ InLane(mainQ, j) THEN [early EXCEPT ![j] = TRUE] ELSE early
    /\ io' = "ok"
    /\ UNCHANGED <<mainQ, retryQ, dlq, resultKey, events, nextId, limits, worker, engine, scoring, tally>>

\* faulty variant: a second cancel flips the flag back
CancelSet_Toggle(j, ok) ==
    /\ cancelPc[j] = "set"
    /\ cancelPc' = [cancelPc EXCEPT ![j] = "idle"]
    /\ controlKey' = IF ok THEN [controlKey EXCEPT ![j] = <<[cancelled |-> ~is_job_cancelled(j)]>>]
                     ELSE controlKey
    /\ http' = Response(IF ok THEN 200 ELSE 500, j)
    /\ early' = IF ok /\ InLane(mainQ, j) THEN [early EXCEPT ![j] = TRUE] ELSE early
    /\ io' = "ok"
    /\ UNCHANGED <<mainQ, retryQ, dlq, resultKey, statusKey, events, nextId, limits, worker, engine, scoring, tally>>

\* handlers::cancel_job from set_job_cancelled on: 200, or 500 when the SET fails
CancelSet(j, ok) ==
    /\ cancelPc[j] = "set"
    /\ cancelPc' = [cancelPc EXCEPT ![j] = "idle"]
    /\ controlKey' = IF ok THEN [controlKey EXCEPT ![j] = <<[cancelled |-> TRUE]>>]
                     ELSE controlKey
    /\ http' = Response(IF ok THEN 200 ELSE 500, j)
    /\ early' = IF ok /\ InLane(mainQ, j) THEN [early EXCEPT ![j] = TRUE] ELSE early
    /\ io' = "ok"
    /\ UNCHANGED <<mainQ, retryQ, dlq, resultKey, statusKey, events, nextId, limits, worker, engine, scoring, tally>>

\* ------------------------------------------------------------- worker loop
\* leave the iteration: the job is dropped; `continue` and the end of the body
\* both drop the permit the iteration holds
NextIteration(w, released) ==
    /\ pc' = [pc EXCEPT ![w] = "pop"]
    /\ job' = [job EXCEPT ![w] = NoJob]
    /\ outputs' = [outputs EXCEPT ![w] = <<>>]
    /\ result' = [result EXCEPT ![w] = NoResult]
    /\ permits' = [permits EXCEPT ![w] = @ + released]
    /\ popInfo' = [popInfo EXCEPT ![w] = NoPop]

\* faulty variant: the head of the lane is read but not removed
PopJob_Peek(w) ==
    /\ pc[w] = "pop"
    /\ Silent
    /\ PopSource(BoundLanguage) # "none"
    /\ LET src == PopSource(BoundLanguage)
           j == IF src = "main" THEN Head(mainQ[BoundLanguage])
                ELSE Head(retryQ[BoundLanguage])
       IN /\ popInfo' = [popInfo EXCEPT ![w] =
                            [src |-> src, main_len |-> Len(mainQ[BoundLanguage]),
                             retry_len |-> Len(retryQ[BoundLanguage])]]
          /\ IF j.language # BoundLanguage
             THEN /\ job' = [job EXCEPT ![w] =
                                [j EXCEPT !.metadata.last_failure_reason = "Language routing error"]]
                  /\ pc' = [pc EXCEPT ![w] = "misrouted"]
             ELSE /\ job' = [job EXCEPT ![w] = j]
                  /\ pc' = [pc EXCEPT ![w] = "acquire"]
    /\ io' = "ok"
    /\ UNCHANGED <<mainQ, retryQ, dlq, resultKey, statusKey, controlKey, events, frontend, engine, scoring, tally,
                   outputs, result, permits>>

\* faulty variant: the language of the popped job is not checked
PopJob_AnyLanguage(w) ==
    /\ pc[w] = "pop"
    /\ Silent
    /\ PopSource(BoundLanguage) # "none"
    /\ LET src == PopSource(BoundLanguage)
           j == IF src = "main" THEN Head(mainQ[BoundLanguage])
                ELSE Head(retryQ[BoundLanguage])
       IN /\ mainQ' = IF src = "main" THEN [mainQ EXCEPT ![BoundLanguage] = Tail(@)]
                      ELSE mainQ
          /\ retryQ' = IF src = "retry" THEN [retryQ EXCEPT ![BoundLanguage] = Tail(@)]
                       ELSE retryQ
          /\ popInfo' = [popInfo EXCEPT ![w] =
                            [src |-> src, main_len |-> Len(mainQ[BoundLanguage]),
                             retry_len |-> Len(retryQ[BoundLanguage])]]
          /\ job' = [job EXCEPT ![w] = j]
          /\ pc' = [pc EXCEPT ![w] = "acquire"]
    /\ io' = "ok"
    /\ UNCHANGED <<dlq, resultKey, statusKey, controlKey, events, frontend, engine, scoring, tally,
                   outputs, result, permits>>

\* pop_job_with_retry returned Ok(Some(job)); then the language check
PopJob(w) ==
    /\ pc[w] = "pop"
    /\ Silent
    /\ PopSource(BoundLanguage) # "none"
    /\ LET src == PopSource(BoundLanguage)
           j == IF src = "main" THEN Head(mainQ[BoundLanguage])
                ELSE Head(retryQ[BoundLanguage])
       IN /\ mainQ' = IF src = "main" THEN [mainQ EXCEPT ![BoundLanguage] = Tail(@)]
                      ELSE mainQ
          /\ retryQ' = IF src = "retry" THEN [retryQ EXCEPT ![BoundLanguage] = Tail(@)]
                       ELSE retryQ
          /\ popInfo' = [popInfo EXCEPT ![w] =
                            [src |-> src, main_len |-> Len(mainQ[BoundLanguage]),
                             retry_len |-> Len(retryQ[BoundLanguage])]]
          /\ IF j.language # BoundLanguage
             THEN /\ job' = [job EXCEPT ![w] =
                                [j EXCEPT !.metadata.last_failure_reason = "Language routing error"]]
                  /\ pc' = [pc EXCEPT ![w] = "misrouted"]
             ELSE /\ job' = [job EXCEPT ![w] = j]
                  /\ pc' = [pc EXCEPT ![w] = "acquire"]
    /\ io' = "ok"
    /\ UNCHANGED <<dlq, resultKey, statusKey, controlKey, events, frontend, engine, scoring, tally,
                   outputs, result, permits>>

\* the misrouted job goes to the DLQ (or is only logged when the push fails)
PushMisrouted(w, ok) ==
    /\ pc[w] = "misrouted"
    /\ Silent
    /\ IF ok THEN push_to_dlq(job[w]) ELSE dlq' = dlq
    /\ io' = Outcome(ok)
    /\ NextIteration(w, 0)
    /\ UNCHANGED <<mainQ, retryQ, resultKey, statusKey, controlKey, events, frontend, engine, scoring, tally>>

\* faulty variant: execution starts without taking a permit
AcquirePermit_NotTaken(w) ==
    /\ pc[w] = "acquire"
    /\ Silent
    /\ permits' = permits
    /\ pc' = [pc EXCEPT ![w] = "precheck"]
    /\ io' = "ok"
    /\ popInfo' = [popInfo EXCEPT ![w] = NoPop]
    /\ UNCHANGED <<store, frontend, engine, scoring, tally, job, outputs, result>>

\* semaphore.acquire_owned()
AcquirePermit(w) ==
    /\ pc[w] = "acquire"
    /\ Silent
    /\ permits[w] > 0
    /\ permits' = [permits EXCEPT ![w] = @ - 1]
    /\ pc' = [pc EXCEPT ![w] = "precheck"]
    /\ io' = "ok"
    /\ popInfo' = [popInfo EXCEPT ![w] = NoPop]
    /\ UNCHANGED <<store, frontend, engine, scoring, tally, job, outputs, result>>

\* faulty variant: execution starts without the check
PreCheck_Skipped(w, r) ==
    /\ pc[w] = "precheck"
    /\ http' = NoResponse
    /\ early' = IF r = "err" THEN [early EXCEPT ![job[w].id] = FALSE] ELSE early
    /\ pc' = [pc EXCEPT ![w] = "execute"]
    /\ result' = result
    /\ io' = r
    /\ UNCHANGED <<store, frontend, engine, scoring, tally, job, outputs, permits, popInfo>>

\* the cancellation check before execution starts
PreCheck(w, r) ==
    /\ pc[w] = "precheck"
    /\ http' = NoResponse
    /\ early' = IF r = "err" THEN [early EXCEPT ![job[w].id] = FALSE] ELSE early
    /\ IF ProbeSaysCancelled(job[w].id, r)
       THEN /\ pc' = [pc EXCEPT ![w] = "store_cancelled"]
            /\ result' = [result EXCEPT ![w] = cancelled_result(job[w])]
       ELSE /\ pc' = [pc EXCEPT ![w] = "execute"]
            /\ result' = result
    /\ io' = r
    /\ UNCHANGED <<store, frontend, engine, scoring, tally, job, outputs, permits, popInfo>>

\* faulty variant: the `continue` leaves the permit taken
StoreCancelled_KeepsPermit(w, f) ==
    /\ pc[w] = "store_cancelled"
    /\ Silent
    /\ store_result_with_metrics(result[w], f)
    /\ NextIteration(w, 0)
    /\ UNCHANGED <<mainQ, retryQ, dlq, controlKey, frontend, engine, scoring, tally>>

\* the cancelled result is persisted
StoreCancelled(w, f) ==
    /\ pc[w] = "store_cancelled"
    /\ Silent
    /\ store_result_with_metrics(result[w], f)
    /\ NextIteration(w, 1)
    /\ UNCHANGED <<mainQ, retryQ, dlq, controlKey, frontend, engine, scoring, tally>>

\* faulty variant: the retry decision compares with <= instead of <
ExecuteDocker_OffByOne(w, ok) ==
    /\ pc[w] = "execute"
    /\ Silent
    /\ tally' = [tally EXCEPT ![job[w].id].executions = @ + 1]
    /\ IF ok
       THEN /\ pc' = [pc EXCEPT ![w] = "probe"]
            /\ job' = job
       ELSE LET attempts == (job[w].metadata.attempts + 1) % 256
            IN /\ job' = [job EXCEPT ![w] =
                             [@ EXCEPT !.metadata.attempts = attempts,
                                       !.metadata.last_failure_reason = "Execution error"]]
               /\ pc' = [pc EXCEPT ![w] =
                            IF attempts <= job[w].metadata.max_attempts
                            THEN "push_retry" ELSE "push_dlq"]
    /\ outputs' = [outputs EXCEPT ![w] = <<>>]
    /\ io' = "ok"
    /\ UNCHANGED <<store, frontend, engine, scoring, result, permits, popInfo>>

\* executor::execute_docker up to the first test: the engine is set up, or
\* the call returns Err and the worker takes the retry-or-DLQ decision
ExecuteDocker(w, ok) ==
    /\ pc[w] = "execute"
    /\ Silent
    /\ tally' = [tally EXCEPT ![job[w].id].executions = @ + 1]
    /\ IF ok
       THEN /\ pc' = [pc EXCEPT ![w] = "probe"]
            /\ job' = job
       ELSE LET attempts == (job[w].metadata.attempts + 1) % 256
            IN /\ job' = [job EXCEPT ![w] =
                             [@ EXCEPT !.metadata.attempts = attempts,
                                       !.metadata.last_failure_reason = "Execution error"]]
               /\ pc' = [pc EXCEPT ![w] =
                            IF attempts < job[w].metadata.max_attempts
                            THEN "push_retry" ELSE "push_dlq"]
    /\ outputs' = [outputs EXCEPT ![w] = <<>>]
    /\ io' = "ok"
    /\ UNCHANGED <<store, frontend, engine, scoring, result, permits, popInfo>>

\* faulty variant: the flag is probed before the first test case only
ProbeTest_FirstOnly(w, r) ==
    /\ pc[w] = "probe"
    /\ http' = NoResponse
    /\ early' = IF r = "err" THEN [early EXCEPT ![job[w].id] = FALSE] ELSE early
    /\ IF outputs[w] = <<>> /\ ProbeSaysCancelled(job[w].id, r)
       THEN /\ pc' = [pc EXCEPT ![w] = "store_result"]
            /\ result' = [result EXCEPT ![w] = execute_docker_result(job[w], outputs[w], TRUE)]
       ELSE /\ pc' = [pc EXCEPT ![w] = "run_test"]
            /\ result' = result
    /\ io' = r
    /\ UNCHANGED <<store, frontend, engine, scoring, tally, job, outputs, permits, popInfo>>

\* execute_job_async: the cancellation probe at the head of the test loop;
\* on cancellation the loop ends and execute_docker returns
ProbeTest(w, r) ==
    /\ pc[w] = "probe"
    /\ http' = NoResponse
    /\ early' = IF r = "err" THEN [early EXCEPT ![job[w].id] = FALSE] ELSE early
    /\ IF ProbeSaysCancelled(job[w].id, r)
       THEN /\ pc' = [pc EXCEPT ![w] = "store_result"]
            /\ result' = [result EXCEPT ![w] = execute_docker_result(job[w], outputs[w], TRUE)]
       ELSE /\ pc' = [pc EXCEPT ![w] = "run_test"]
            /\ result' = result
    /\ io' = r
    /\ UNCHANGED <<store, frontend, engine, scoring, tally, job, outputs, permits, popInfo>>

\* faulty variant: the loop ends at the first test case that crashed or timed out
RunTest_StopsOnIssue(w, run) ==
    /\ pc[w] = "run_test"
    /\ Silent
    /\ LET test_case == job[w].test_cases[Len(outputs[w]) + 1]
           out == TestOutput(test_case, run)
           outs == Append(outputs[w], out)
       IN /\ outputs' = [outputs EXCEPT ![w] = outs]
          /\ IF Len(outs) = Len(job[w].test_cases) \/ out.runtime_error \/ out.timed_out
             THEN /\ pc' = [pc EXCEPT ![w] = "store_result"]
                  /\ result' = [result EXCEPT ![w] = execute_docker_result(job[w], outs, FALSE)]
             ELSE /\ pc' = [pc EXCEPT ![w] = "probe"]
                  /\ result' = result
    /\ io' = "ok"
    /\ UNCHANGED <<store, frontend, engine, scoring, tally, job, permits, popInfo>>

\* faulty variant: the test cases are taken from the end of the list
RunTest_LastFirst(w, run) ==
    /\ pc[w] = "run_test"
    /\ Silent
    /\ LET test_case == job[w].test_cases[Len(job[w].test_cases) - Len(outputs[w])]
           outs == Append(outputs[w], TestOutput(test_case, run))
       IN /\ outputs' = [outputs EXCEPT ![w] = outs]
          /\ IF Len(outs) = Len(job[w].test_cases)
             THEN /\ pc' = [pc EXCEPT ![w] = "store_result"]
                  /\ result' = [result EXCEPT ![w] = execute_docker_result(job[w], outs, FALSE)]
             ELSE /\ pc' = [pc EXCEPT ![w] = "probe"]
                  /\ result' = result
    /\ io' = "ok"
    /\ UNCHANGED <<store, frontend, engine, scoring, tally, job, permits, popInfo>>

\* execute_job_async: one engine call and the push of its output; after the
\* last test case the loop ends and execute_docker returns
RunTest(w, run) ==
    /\ pc[w] = "run_test"
    /\ Silent
    /\ LET test_case == job[w].test_cases[Len(outputs[w]) + 1]
           outs == Append(outputs[w], TestOutput(test_case, run))
       IN /\ outputs' = [outputs EXCEPT ![w] = outs]
          /\ IF Len(outs) = Len(job[w].test_cases)
             THEN /\ pc' = [pc EXCEPT ![w] = "store_result"]
                  /\ result' = [result EXCEPT ![w] = execute_docker_result(job[w], outs, FALSE)]
             ELSE /\ pc' = [pc EXCEPT ![w] = "probe"]
                  /\ result' = result
    /\ io' = "ok"
    /\ UNCHANGED <<store, frontend, engine, scoring, tally, job, permits, popInfo>>

\* the result execute_docker returned is persisted
StoreResult(w, f) ==
    /\ pc[w] = "store_result"
    /\ Silent
    /\ store_result_with_metrics(result[w], f)
    /\ NextIteration(w, 1)
    /\ UNCHANGED <<mainQ, retryQ, dlq, controlKey, frontend, engine, scoring, tally>>

\* faulty variant: the attempt that is retried also stores a failed result
PushRetry_StoresFailed(w, ok) ==
    /\ pc[w] = "push_retry"
    /\ Silent
    /\ IF ok THEN push_to_retry_queue(job[w]) ELSE retryQ' = retryQ
    /\ tally' = IF ok THEN [tally EXCEPT ![job[w].id].retries = @ + 1] ELSE tally
    /\ resultKey' = [resultKey EXCEPT ![job[w].id] = <<failed_result(job[w])>>]
    /\ io' = Outcome(ok)
    /\ NextIteration(w, 1)
    /\ UNCHANGED <<mainQ, dlq, statusKey, controlKey, events, frontend, engine, scoring>>

\* the retry budget is not exhausted: the job goes to the retry lane
PushRetry(w, ok) ==
    /\ pc[w] = "push_retry"
    /\ Silent
    /\ IF ok THEN push_to_retry_queue(job[w]) ELSE retryQ' = retryQ
    /\ tally' = IF ok THEN [tally EXCEPT ![job[w].id].retries = @ + 1] ELSE tally
    /\ io' = Outcome(ok)
    /\ NextIteration(w, 1)
    /\ UNCHANGED <<mainQ, dlq, resultKey, statusKey, controlKey, events, frontend, engine, scoring>>

\* faulty variant: the job sent to the DLQ is also pushed to the retry lane
PushDlq_Requeues(w, ok) ==
    /\ pc[w] = "push_dlq"
    /\ Silent
    /\ IF ok THEN push_to_dlq(job[w]) ELSE dlq' = dlq
    /\ push_to_retry_queue(job[w])
    /\ io' = Outcome(ok)
    /\ pc' = [pc EXCEPT ![w] = "store_failed"]
    /\ result' = [result EXCEPT ![w] = failed_result(job[w])]
    /\ UNCHANGED <<mainQ, resultKey, statusKey, controlKey, events, frontend, engine, scoring, tally,
                   job, outputs, permits, popInfo>>

\* the retry budget is exhausted: the job goes to the DLQ
PushDlq(w, ok) ==
    /\ pc[w] = "push_dlq"
    /\ Silent
    /\ IF ok THEN push_to_dlq(job[w]) ELSE dlq' = dlq
    /\ io' = Outcome(ok)
    /\ pc' = [pc EXCEPT ![w] = "store_failed"]
    /\ result' = [result EXCEPT ![w] = failed_result(job[w])]
    /\ UNCHANGED <<mainQ, retryQ, resultKey, statusKey, controlKey, events, frontend, engine, scoring, tally,
                   job, outputs, permits, popInfo>>

\* ... and its terminal failed result is stored
StoreFailed(w, f) ==
    /\ pc[w] = "store_failed"
    /\ Silent
    /\ store_result_with_metrics(result[w], f)
    /\ NextIteration(w, 1)
    /\ UNCHANGED <<mainQ, retryQ, dlq, controlKey, frontend, engine, scoring, tally>>

Next ==
    \/ \E lang \in Languages, body \in RequestBodies(MaxTests), ok \in BOOLEAN :
           Submit(lang, body, ok)
    \/ \E j \in JobIds, ok \in BOOLEAN : CancelLookup(j, ok)
    \/ \E j \in JobIds, ok \in BOOLEAN : CancelSet(j, ok)
    \/ \E w \in Workers : PopJob(w)
    \/ \E w \in Workers, ok \in BOOLEAN : PushMisrouted(w, ok)
    \/ \E w \in Workers : AcquirePermit(w)
    \/ \E w \in Workers, r \in ReadOutcomes : PreCheck(w, r)
    \/ \E w \in Workers, f \in StoreOutcomes : StoreCancelled(w, f)
    \/ \E w \in Workers, ok \in BOOLEAN : ExecuteDocker(w, ok)
    \/ \E w \in Workers, r \in ReadOutcomes : ProbeTest(w, r)
    \/ \E w \in Workers, run \in ContainerRuns : RunTest(w, run)
    \/ \E w \in Workers, f \in StoreOutcomes : StoreResult(w, f)
    \/ \E w \in Workers, ok \in BOOLEAN : PushRetry(w, ok)
    \/ \E w \in Workers, ok \in BOOLEAN : PushDlq(w, ok)
    \/ \E w \in Workers, f \in StoreOutcomes : StoreFailed(w, f)

Spec == Init /\ [][Next]_vars

\* -------------------------------------------------------------- submissions
\* submit_job alone, for requests on both sides of every limit; the workers
\* stand still
LimitTests == TestCaseInput(MAX_INPUT_SIZE, MAX_EXPECTED_OUTPUT_SIZE, DefaultWeight)

\* n test cases at the size limits, test case `at` (0: none) one byte over
\* the limit of its input or of its expected output
TestInputs(n, at, field) ==
    [i \in 1..n |->
        IF i # at THEN LimitTests
        ELSE IF field = "input"
        THEN TestCaseInput(MAX_INPUT_SIZE + 1, 0, DefaultWeight)
        ELSE TestCaseInput(0, MAX_EXPECTED_OUTPUT_SIZE + 1, DefaultWeight)]

Requests ==
    {SubmitRequest(lang, src[1], src[2], TestInputs(n, over[1], over[2]), t) :
        lang \in Languages,
        src \in {<<0, TRUE>>, <<1, TRUE>>, <<1, FALSE>>, <<MAX_SOURCE_CODE_SIZE, FALSE>>,
                 <<MAX_SOURCE_CODE_SIZE + 1, FALSE>>},
        n \in {0, 1, 2, MAX_TEST_CASES, MAX_TEST_CASES + 1},
        over \in {<<0, "input">>, <<1, "input">>, <<1, "expected">>, <<2, "expected">>},
        t \in {0, 1, MaxTimeoutMs, MaxTimeoutMs + 1}}

SubmitAny(req, ok) ==
    /\ nextId <= limits.jobs
    /\ submit_job(req, ok)

\* one submission is accepted, into an empty store or behind a payload
InitSubmit == Init /\ limits.jobs = 1

NextSubmit == \E req \in Requests, ok \in BOOLEAN : SubmitAny(req, ok)

SpecSubmit == InitSubmit /\ [][NextSubmit]_vars

\* ----------------------------------------------------------------- shutdown
\* main: tokio::select! between worker_loop and the ctrl_c future. When the
\* signal future completes first the select returns and the worker_loop future
\* is dropped at the await it is suspended on, with the locals it holds (the
\* job, the outputs, the permit); main then returns. `job` keeps the job the
\* dropped future held.
Shutdown(w) ==
    /\ pc[w] # "exited"
    /\ pc' = [pc EXCEPT ![w] = "exited"]
    /\ outputs' = [outputs EXCEPT ![w] = <<>>]
    /\ result' = [result EXCEPT ![w] = NoResult]
    /\ permits' = [permits EXCEPT ![w] = MaxParallelJobs]
    /\ popInfo' = [popInfo EXCEPT ![w] = NoPop]
    /\ Silent
    /\ io' = "ok"
    /\ UNCHANGED <<store, frontend, engine, scoring, tally, job>>

\* the workers of one job's life, with the termination signal
InitShutdown == Init /\ limits.jobs = 1

NextShutdown == Next \/ \E w \in Workers : Shutdown(w)

SpecShutdown == InitShutdown /\ [][NextShutdown]_vars

\* ------------------------------------------------- container life cycle
\* DockerEngine::execute_in_container, one await per step, for the calls that
\* the test cases of one job make one after the other; the rest of the
\* program stands still
program == <<store, frontend, worker, io, http, early, scoring, tally>>

\* the runs a started container can have: every exit status the
\* classification tells apart, with and without captured stderr, and the
\* timer firing after some output was captured
StartedRuns ==
    {[kind |-> "exit", code |-> c, stdout |-> <<"a">>, stderr |-> e] :
        c \in {0, 1, 137, 139, NoExitCode}, e \in {<<>>, <<"e">>}}
    \cup {[kind |-> "timeout", code |-> NoExitCode, stdout |-> o, stderr |-> <<"e">>] :
              o \in {<<>>, <<"b">>}}

\* the Err every `?` and bail! of the function returns
EngineErr == execute_in_container([kind |-> "infra_error", code |-> NoExitCode,
                                   stdout |-> <<>>, stderr |-> <<>>])

\* ContainerGuard::drop: the removal is handed to a spawned task
DropGuard ==
    /\ cleanups' = IF guard # 0 THEN cleanups \cup {guard} ELSE cleanups
    /\ guard' = 0

\* the call starts: the size guardrails bail out or the image is looked for
EngineCall(fits) ==
    /\ ePc = "idle"
    /\ calls < MaxTests
    /\ calls' = calls + 1
    /\ ePc' = IF fits THEN "ensure_image" ELSE "idle"
    /\ ret' = IF fits THEN <<>> ELSE <<EngineErr>>
    /\ captured' = <<>>
    /\ UNCHANGED <<containers, guard, cleanups, removals, runtime, kills, program>>

\* self.ensure_image(&image).await?
EnsureImage(ok) ==
    /\ ePc = "ensure_image"
    /\ ePc' = IF ok THEN "create" ELSE "idle"
    /\ ret' = IF ok THEN ret ELSE <<EngineErr>>
    /\ UNCHANGED <<calls, containers, guard, cleanups, removals, runtime, captured, kills, program>>

\* create_container(..).await?, then the guard is set up
CreateContainer(ok) ==
    /\ ePc = "create"
    /\ IF ok
       THEN /\ containers' = [containers EXCEPT ![calls] = "created"]
            /\ guard' = calls
            /\ ePc' = "start"
            /\ ret' = ret
       ELSE /\ UNCHANGED <<containers, guard>>
            /\ ePc' = "idle"
            /\ ret' = <<EngineErr>>
    /\ UNCHANGED <<calls, cleanups, removals, runtime, captured, kills, program>>

\* start_container(..).await?: on Err the function returns and the guard drops
StartContainer(ok) ==
    /\ ePc = "start"
    /\ IF ok
       THEN /\ containers' = [containers EXCEPT ![guard] = "running"]
            /\ ePc' = "wait"
            /\ ret' = ret
            /\ UNCHANGED <<guard, cleanups>>
       ELSE /\ containers' = containers
            /\ ePc' = "idle"
            /\ ret' = <<EngineErr>>
            /\ DropGuard
    /\ UNCHANGED <<calls, removals, runtime, captured, kills, program>>

\* tokio::time::timeout(execution_future): the program exits in time and the
\* function returns the classified output, or the timer fires
WaitOutcomes == StartedRuns
WaitContainer(outcome) ==
    /\ ePc = "wait"
    /\ IF outcome.kind = "timeout"
       THEN /\ ePc' = "kill"
            /\ ret' = ret
            /\ UNCHANGED <<containers, guard, cleanups>>
       ELSE /\ containers' = [containers EXCEPT ![guard] = "exited"]
            /\ ePc' = "idle"
            /\ ret' = <<execute_in_container(outcome)>>
            /\ DropGuard
    /\ captured' = <<outcome>>
    /\ UNCHANGED <<calls, removals, runtime, kills, program>>

\* kill_container(..).await, its error only logged; the function returns
KillContainer(ok) ==
    /\ ePc = "kill"
    /\ containers' = IF ok THEN [containers EXCEPT ![guard] = "exited"] ELSE containers
    /\ kills' = [kills EXCEPT ![guard] = @ + 1]
    /\ ePc' = "idle"
    /\ ret' = <<execute_in_container(captured[1])>>
    /\ DropGuard
    /\ UNCHANGED <<calls, removals, runtime, captured, program>>

\* the task the guard spawned runs: remove_container(force: true)
RunCleanup(c) ==
    /\ runtime = "up"
    /\ c \in cleanups
    /\ cleanups' = cleanups \ {c}
    /\ containers' = [containers EXCEPT ![c] = "removed"]
    /\ removals' = [removals EXCEPT ![c] = @ + 1]
    /\ UNCHANGED <<ePc, calls, guard, runtime, ret, captured, kills, program>>

\* the surrounding future is dropped at the await it is suspended on (the
\* select! of main on the termination signal): a guard that exists drops
DropCall ==
    /\ ePc # "dropped"
    /\ ePc' = "dropped"
    /\ DropGuard
    /\ UNCHANGED <<calls, containers, removals, runtime, ret, captured, kills, program>>

\* main returns after the select!: the runtime shuts down and the spawned
\* tasks that have not run are cancelled
MainReturns ==
    /\ ePc = "dropped"
    /\ runtime = "up"
    /\ runtime' = "down"
    /\ cleanups' = {}
    /\ UNCHANGED <<ePc, calls, containers, guard, removals, ret, captured, kills, program>>

InitEngine == Init /\ limits = [jobs |-> 1, tests |-> MaxTests, misrouted |-> FALSE]

NextEngine ==
    \/ \E fits \in BOOLEAN : EngineCall(fits)
    \/ \E ok \in BOOLEAN : EnsureImage(ok)
    \/ \E ok \in BOOLEAN : CreateContainer(ok)
    \/ \E ok \in BOOLEAN : StartContainer(ok)
    \/ \E outcome \in WaitOutcomes : WaitContainer(outcome)
    \/ \E ok \in BOOLEAN : KillContainer(ok)
    \/ \E c \in ContainerIds : RunCleanup(c)
    \/ DropCall
    \/ MainReturns

SpecEngine == InitEngine /\ [][NextEngine]_vars

\* ------------------------------------------------------------------ scoring
\* evaluate and the two results the worker builds itself, applied to jobs and
\* outputs of every shape; the rest of the program stands still
ScoredWeights == {0, 10, 128, 200}
ScoredStdouts == {<<" ", "a">>, <<"b">>}

ScoredJobs ==
    {JobRequest(1, BoundLanguage, SourceCode(1, FALSE),
                [i \in 1..Len(ws) |-> TestCase(i, ws[i])], DefaultTimeoutMs) :
        ws \in UNION {[1..n -> ScoredWeights] : n \in 1..MaxScored}}

\* the outputs an engine can hand over for test id i
ScoredOutputs(i) ==
    [test_id : {i}, stdout : ScoredStdouts, stderr : {<<>>},
     timed_out : BOOLEAN, runtime_error : BOOLEAN]

\* the sequences of outputs with pairwise distinct test ids drawn from ids
RECURSIVE OutputSeqs(_)
OutputSeqs(ids) ==
    {<<>>} \cup UNION {{<<o>> \o rest : o \in ScoredOutputs(i), rest \in OutputSeqs(ids \ {i})} :
                          i \in ids}

\* u32 `+` in a build with overflow checks: the addition panics
Overflows(a, b) == a + b >= U32Values

\* the sum of the weights panics at some addition
RECURSIVE SumPanics(_)
SumPanics(tcs) ==
    /\ tcs # <<>>
    /\ LET front == SubSeq(tcs, 1, Len(tcs) - 1)
       IN SumPanics(front) \/ Overflows(SumWeights(front), tcs[Len(tcs)].weight)

\* the loop of evaluate panics at some `total_score += test_case.weight`
RECURSIVE EvalPanics(_, _, _)
EvalPanics(tcs, outs, total_score) ==
    /\ outs # <<>>
    /\ LET test_case == FindTestCase(tcs, Head(outs).test_id)
       IN IF TestStatusOf(test_case, Head(outs)) = "passed"
          THEN \/ Overflows(total_score, test_case.weight)
               \/ EvalPanics(tcs, Tail(outs), AddU32(total_score, test_case.weight))
          ELSE EvalPanics(tcs, Tail(outs), total_score)

Returned(by, panics, value) ==
    IF panics THEN [kind |-> "panic", by |-> by, value |-> NoResult]
    ELSE [kind |-> "result", by |-> by, value |-> value]

\* evaluate(&job, outputs); `checked`: the build has overflow checks
Evaluate(checked) ==
    /\ sReturned' = Returned("evaluate",
                             checked /\ (SumPanics(sJob.test_cases)
                                         \/ EvalPanics(sJob.test_cases, sOutputs, 0)),
                             evaluate(sJob, sOutputs))
    /\ UNCHANGED <<sJob, sOutputs, store, frontend, worker, io, http, early, engine, tally>>

\* worker_loop: the result built when the job is cancelled before execution
BuildCancelled(checked) ==
    /\ sReturned' = Returned("cancelled", checked /\ SumPanics(sJob.test_cases),
                             cancelled_result(sJob))
    /\ UNCHANGED <<sJob, sOutputs, store, frontend, worker, io, http, early, engine, tally>>

\* worker_loop: the result built when the retry budget is exhausted
BuildFailed(checked) ==
    /\ sReturned' = Returned("failed", checked /\ SumPanics(sJob.test_cases),
                             failed_result(sJob))
    /\ UNCHANGED <<sJob, sOutputs, store, frontend, worker, io, http, early, engine, tally>>

InitScore ==
    /\ Boot
    /\ limits = [jobs |-> 1, tests |-> MaxTests, misrouted |-> FALSE]
    /\ sJob \in ScoredJobs
    /\ sOutputs \in OutputSeqs({tc.id : tc \in {sJob.test_cases[i] : i \in 1..Len(sJob.test_cases)}})
    /\ sReturned = NotReturned

NextScore ==
    \/ \E checked \in BOOLEAN : Evaluate(checked)
    \/ \E checked \in BOOLEAN : BuildCancelled(checked)
    \/ \E checked \in BOOLEAN : BuildFailed(checked)

SpecScore == InitScore /\ [][NextScore]_vars

\* ---------------------------------------------------------------- progress
\* the program while every store command and every read succeeds and the
\* workers keep running, under a load that need not end
\*
\* Uuid::new_v4 yields an id of which the store holds nothing. The ids of the
\* model are few, so the id minted last stands for a new one again once its
\* job has left the system: its result is written, no lane and no worker holds
\* it, and its keys (SET with a TTL of 24 hours) are forgotten with it
Forget ==
    LET j == nextId - 1
    IN /\ nextId > 1
       /\ resultKey[j] # <<>>
       /\ ~InLane(mainQ, j) /\ ~InLane(retryQ, j) /\ ~InLane(dlq, j)
       /\ \A w \in Workers : job[w].id # j
       /\ cancelPc[j] = "idle"
       /\ nextId' = j
       /\ resultKey' = [resultKey EXCEPT ![j] = <<>>]
       /\ statusKey' = [statusKey EXCEPT ![j] = <<>>]
       /\ controlKey' = [controlKey EXCEPT ![j] = <<>>]
       /\ events' = [events EXCEPT ![j] = 0]
       /\ tally' = [tally EXCEPT ![j] = [executions |-> 0, retries |-> 0]]
       /\ early' = [early EXCEPT ![j] = FALSE]
       /\ http' = NoResponse
       /\ io' = "ok"
       /\ UNCHANGED <<mainQ, retryQ, dlq, cancelPc, limits, worker, engine, scoring>>

\* the worker process that keeps running; the other one is not started
LiveWorkers == {"w1"}

\* one step of worker_loop of worker w when the store answers every command
WorkerStep(w) ==
    \/ PopJob(w)
    \/ PushMisrouted(w, TRUE)
    \/ AcquirePermit(w)
    \/ PreCheck(w, "ok")
    \/ StoreCancelled(w, "none")
    \/ \E ok \in BOOLEAN : ExecuteDocker(w, ok)
    \/ ProbeTest(w, "ok")
    \/ \E run \in ContainerRuns : RunTest(w, run)
    \/ StoreResult(w, "none")
    \/ PushRetry(w, TRUE)
    \/ PushDlq(w, TRUE)
    \/ StoreFailed(w, "none")

\* the jobs submitted are those of the language the workers are bound to
NextLive ==
    \/ \E body \in RequestBodies(MaxTests) : Submit(BoundLanguage, body, TRUE)
    \/ \E j \in JobIds : CancelLookup(j, TRUE)
    \/ \E j \in JobIds : CancelSet(j, TRUE)
    \/ \E w \in LiveWorkers : WorkerStep(w)
    \/ Forget

\* worker_loop is the one task of its process and runs whenever it can
SpecLive == Init /\ [][NextLive]_vars /\ \A w \in LiveWorkers : WF_vars(WorkerStep(w))

\* =================================================================== claims
\* how many payloads of the lanes Q (one per language) carry job id j
CountId(q, j) == Cardinality({i \in 1..Len(q) : q[i].id = j})

RECURSIVE CountOver(_, _, _)
CountOver(langs, Q, j) ==
    IF langs = {} THEN 0
    ELSE LET l == CHOOSE x \in langs : TRUE
         IN CountId(Q[l], j) + CountOver(langs \ {l}, Q, j)

Count(Q, j) == CountOver(Languages, Q, j)

Queued(j) == Count(mainQ, j) + Count(retryQ, j)

Holders(j) == {w \in Workers : job[w].id = j}

\* worker w takes a step
Steps(w) == pc'[w] # pc[w]

IsPrefix(s, t) == Len(s) <= Len(t) /\ SubSeq(t, 1, Len(s)) = s

\* the sum of the weights of test_cases, from the first to the last
RECURSIVE WeightTotal(_, _)
WeightTotal(tcs, n) == IF n = 0 THEN 0 ELSE WeightTotal(tcs, n - 1) + tcs[n].weight

\* ----------------------------------------------------------------------- C1
C1_AtMostOnceQueued ==
    \A j \in AllIds : Queued(j) <= 1 /\ (Count(dlq, j) > 0 => Queued(j) = 0)

C1_DlqIsFinal ==
    /\ (mainQ' # mainQ \/ retryQ' # retryQ) =>
          \A j \in AllIds :
              Count(dlq, j) > 0 => Count(mainQ', j) + Count(retryQ', j) <= Queued(j)
    /\ \A l \in Languages : IsPrefix(dlq[l], dlq'[l])

\* C1: a job id occurs at most once across the main and retry lanes (never in
\* both, never twice in one); a job that is in a dead-letter lane is in no main
\* or retry lane and no step pushes it there again; and a dead-letter lane only
\* grows at its tail (nothing is ever popped from it).
C1_QueueDiscipline == []C1_AtMostOnceQueued /\ [][C1_DlqIsFinal]_vars

\* a job that exhausted its retries lies in the DLQ (it went through the retry
\* lane twice before)
C1_Witness ==
    \E l \in Languages : \E i \in 1..Len(dlq[l]) :
        /\ dlq[l][i].metadata.attempts = dlq[l][i].metadata.max_attempts
        /\ dlq[l][i].id \in JobIds

\* ----------------------------------------------------------------------- C2
C2_ErrorStep(w) ==
    pc[w] = "execute" /\ pc'[w] \in {"push_retry", "push_dlq"}

C2_Step(w) ==
    /\ C2_ErrorStep(w) =>
          /\ job'[w].metadata.attempts = job[w].metadata.attempts + 1
          /\ job'[w].metadata.last_failure_reason = "Execution error"
          /\ job'[w] = [job[w] EXCEPT !.metadata.attempts = @ + 1,
                                      !.metadata.last_failure_reason = "Execution error"]
          /\ pc'[w] = IF job'[w].metadata.attempts < job'[w].metadata.max_attempts
                      THEN "push_retry" ELSE "push_dlq"
          /\ UNCHANGED store
    /\ (pc[w] = "push_retry" /\ Steps(w)) =>
          /\ io' = "ok" => retryQ' = [retryQ EXCEPT ![job[w].language] = Append(@, job[w])]
          /\ io' = "err" => retryQ' = retryQ
          /\ pc'[w] = "pop"
          /\ UNCHANGED <<mainQ, dlq, resultKey, statusKey, events>>
    /\ (pc[w] = "push_dlq" /\ Steps(w)) =>
          /\ io' = "ok" => dlq' = [dlq EXCEPT ![job[w].language] = Append(@, job[w])]
          /\ pc'[w] = "store_failed"
          /\ result'[w] = [job_id |-> job[w].id, overall_status |-> "failed", score |-> 0,
                           max_score |-> WeightTotal(job[w].test_cases, Len(job[w].test_cases)),
                           results |-> <<>>]
          /\ UNCHANGED <<mainQ, retryQ, resultKey, statusKey, events>>
    /\ (pc[w] = "store_failed" /\ Steps(w)) =>
          /\ io' = "ok" => /\ resultKey' = [resultKey EXCEPT ![job[w].id] = <<result[w]>>]
                           /\ statusKey' = [statusKey EXCEPT ![job[w].id] = <<"failed">>]
          /\ UNCHANGED <<mainQ, retryQ, dlq>>

\* C2: when the execution of a popped job ends with an execution error, the
\* worker adds exactly 1 to metadata.attempts and records the failure reason;
\* if the new attempts < max_attempts its next store command appends the job to
\* the retry lane and writes no result; otherwise it appends the job to the
\* dead-letter lane and then stores a result failed / score 0 / no per-test
\* records / max_score = the sum of all test weights.
C2_RetryOrDeadLetter == [][\A w \in Workers : C2_Step(w)]_vars

\* both branches were taken: a job is in the DLQ after max_attempts execution
\* errors and its failed result is stored
C2_Witness ==
    \E j \in JobIds :
        /\ \E l \in Languages : \E i \in 1..Len(dlq[l]) :
              dlq[l][i].id = j /\ dlq[l][i].metadata.attempts = DefaultMaxAttempts
        /\ resultKey[j] # <<>>
        /\ resultKey[j][1].overall_status = "failed"
        /\ resultKey[j][1].max_score > 0

\* ----------------------------------------------------------------------- C4
C4_OneOwner ==
    \A j \in AllIds : Cardinality(Holders(j)) + Queued(j) <= 1

C4_OnlyOwnerActs ==
    <<retryQ, dlq, resultKey, statusKey, events>>' # <<retryQ, dlq, resultKey, statusKey, events>> =>
    \A j \in AllIds :
        (\/ resultKey'[j] # resultKey[j]
         \/ statusKey'[j] # statusKey[j]
         \/ events'[j] # events[j]
         \/ Count(retryQ', j) > Count(retryQ, j)
         \/ Count(dlq', j) > Count(dlq, j))
        => \E w \in Workers : Holders(j) = {w} /\ Steps(w)

\* C4: with several workers of one language popping concurrently, every queued
\* payload goes to exactly one worker: a job id is never held by two workers
\* nor held by one while still queued; and from the pop to the end of the
\* iteration only the worker that holds the job writes its result or status
\* key, publishes its completion or pushes it to a retry or dead-letter lane.
C4_SingleOwner == []C4_OneOwner /\ [][C4_OnlyOwnerActs]_vars

\* two workers of the same language execute two jobs at the same time
C4_Witness ==
    \E w1, w2 \in Workers :
        /\ w1 # w2
        /\ pc[w1] = "run_test" /\ pc[w2] = "run_test"
        /\ job[w1].id \in JobIds /\ job[w2].id \in JobIds

\* ----------------------------------------------------------------------- C5
C5_PopStep(w) ==
    (pc[w] = "pop" /\ Steps(w)) =>
        IF mainQ[BoundLanguage] # <<>>
        THEN /\ job'[w].id = Head(mainQ[BoundLanguage]).id
             /\ job'[w].metadata.attempts = Head(mainQ[BoundLanguage]).metadata.attempts
             /\ mainQ'[BoundLanguage] = Tail(mainQ[BoundLanguage])
             /\ retryQ' = retryQ
        ELSE /\ retryQ[BoundLanguage] # <<>>
             /\ job'[w] = Head(retryQ[BoundLanguage])
             /\ retryQ'[BoundLanguage] = Tail(retryQ[BoundLanguage])
             /\ mainQ' = mainQ

\* C5: pop_job_with_retry gives the main lane strict priority: whenever the
\* main lane of the worker's language is non-empty at the pop, the job returned
\* is the head of the main lane and the retry lane is left as it is, whatever
\* it holds; a retry-lane job is returned only when the main lane is empty.
C5_MainFirst == [][\A w \in Workers : C5_PopStep(w)]_vars

\* a worker has just popped from the main lane while the retry lane held a job
C5_Witness ==
    \E w \in Workers : popInfo[w].src = "main" /\ popInfo[w].retry_len > 0

\* ----------------------------------------------------------------------- C6
\* a lane changes only by losing its head or by gaining one payload at its tail
C6_LaneStep(q, r) ==
    \/ r = q
    \/ q # <<>> /\ r = Tail(q)
    \/ Len(r) = Len(q) + 1 /\ IsPrefix(q, r)

C6_Fifo ==
    /\ \A l \in Languages :
          /\ C6_LaneStep(mainQ[l], mainQ'[l])
          /\ C6_LaneStep(retryQ[l], retryQ'[l])
          /\ C6_LaneStep(dlq[l], dlq'[l])
    /\ \A w \in Workers : (pc[w] = "pop" /\ Steps(w)) =>
          \/ mainQ[BoundLanguage] # <<>>
             /\ mainQ'[BoundLanguage] = Tail(mainQ[BoundLanguage])
             /\ job'[w].id = Head(mainQ[BoundLanguage]).id
          \/ retryQ[BoundLanguage] # <<>>
             /\ retryQ'[BoundLanguage] = Tail(retryQ[BoundLanguage])
             /\ job'[w].id = Head(retryQ[BoundLanguage]).id

\* job ids are minted in increasing order, so a main lane in push order is a
\* main lane of increasing ids
C6_MainInPushOrder ==
    \A l \in Languages : \A i, k \in 1..Len(mainQ[l]) :
        i < k => mainQ[l][i].id < mainQ[l][k].id

\* C6: each lane is FIFO: push_job, push_to_retry_queue and push_to_dlq append
\* at the tail, a pop takes the head, nothing else changes a lane; so a main
\* lane always lists its jobs in the order they were pushed and, of two jobs
\* pushed to one lane, the one pushed first is popped first.
C6_FifoLanes == []C6_MainInPushOrder /\ [][C6_Fifo]_vars

\* a worker has just popped the head of a main lane that held two jobs: the
\* one pushed first
C6_Witness ==
    \E w \in Workers :
        /\ popInfo[w].src = "main" /\ popInfo[w].main_len >= 2
        /\ mainQ[BoundLanguage] # <<>>
        /\ job[w].id < Head(mainQ[BoundLanguage]).id

\* ----------------------------------------------------------------------- C3
EngineErrorStderr == <<"Docker execution error">>

C3_Step(w) ==
    (/\ pc[w] = "run_test" /\ Steps(w)
     /\ outputs'[w][Len(outputs'[w])].stderr = EngineErrorStderr)
    => /\ pc'[w] \in {"push_retry", "push_dlq"}
       /\ job'[w].metadata.attempts = job[w].metadata.attempts + 1

C3_NoEngineErrorEvaluated ==
    \A j \in AllIds : resultKey[j] # <<>> =>
        \A i \in 1..Len(resultKey[j][1].results) :
            resultKey[j][1].results[i].stderr # EngineErrorStderr

\* C3: if the engine call for a test case fails with an engine-level error, the
\* attempt of the whole job is failed: the worker goes to the retry-or-DLQ
\* decision (attempts + 1) without running a later test case, and no stored
\* result carries the engine error as a per-test record.
C3_EngineErrorFailsAttempt ==
    []C3_NoEngineErrorEvaluated /\ [][\A w \in Workers : C3_Step(w)]_vars

\* ----------------------------------------------------------------------- C7
C7_Step(w) ==
    /\ (/\ pc[w] = "precheck" /\ Steps(w)
        /\ is_job_cancelled(job[w].id) /\ io' = "ok")
       => /\ pc'[w] = "store_cancelled"
          /\ result'[w] = [job_id |-> job[w].id, overall_status |-> "cancelled", score |-> 0,
                           max_score |-> WeightTotal(job[w].test_cases, Len(job[w].test_cases)),
                           results |-> <<>>]
          /\ outputs'[w] = <<>>
          /\ UNCHANGED store
    /\ (pc[w] = "store_cancelled" /\ Steps(w))
       => /\ pc'[w] = "pop"
          /\ outputs[w] = <<>>
          /\ UNCHANGED <<mainQ, retryQ, dlq>>
          /\ io' = "ok" => /\ resultKey'[job[w].id] = <<result[w]>>
                           /\ statusKey'[job[w].id] = <<"cancelled">>
                           /\ events'[job[w].id] = events[job[w].id] + 1

\* C7: if the control flag of a correctly routed job is set when the worker
\* reads it in its pre-execution check, the worker runs no test case, builds
\* the result cancelled / score 0 / max_score = sum of all test weights / no
\* per-test records, and its next step stores that result, publishes the
\* completion event (when the store accepts the commands) and returns to the
\* pop without pushing the job to any lane.
C7_CancelledBeforeExecution == [][\A w \in Workers : C7_Step(w)]_vars

\* the pre-execution check has found the flag set; the cancelled result is
\* about to be stored
C7_Witness ==
    \E w \in Workers :
        /\ pc[w] = "store_cancelled"
        /\ is_job_cancelled(job[w].id)
        /\ result[w].overall_status = "cancelled"

\* ----------------------------------------------------------------------- C8
C8_Step(w) ==
    /\ (/\ pc[w] = "probe" /\ Steps(w) /\ Len(outputs[w]) >= 1
        /\ is_job_cancelled(job[w].id) /\ io' = "ok")
       => /\ pc'[w] = "store_result"
          /\ result'[w].overall_status = "cancelled"
    /\ (pc[w] = "store_result" /\ Steps(w))
       => /\ Len(outputs[w]) < Len(job[w].test_cases) => result[w].overall_status = "cancelled"
          /\ io' = "ok" => /\ resultKey'[job[w].id] = <<result[w]>>
                           /\ statusKey'[job[w].id] = <<result[w].overall_status>>

\* C8: if the per-test cancellation probe reads the flag as set after at least
\* one test of the job has run, the result the worker then persists for the
\* job has overall_status = cancelled.
C8_CancelledMidJob == [][\A w \in Workers : C8_Step(w)]_vars

\* a cancelled result with per-test records is stored
C8_Witness ==
    \E j \in JobIds :
        /\ resultKey[j] # <<>>
        /\ resultKey[j][1].overall_status = "cancelled"
        /\ Len(resultKey[j][1].results) >= 1
        /\ statusKey[j] = <<"cancelled">>

\* ----------------------------------------------------------------------- C9
\* the sum of the weights of the first k test cases whose record is `passed`
RECURSIVE PassedWeight(_, _, _)
PassedWeight(tcs, results, k) ==
    IF k = 0 THEN 0
    ELSE PassedWeight(tcs, results, k - 1)
         + (IF results[k].status = "passed" THEN tcs[k].weight ELSE 0)

C9_PartialResult(w) ==
    (pc[w] = "store_result" /\ result[w].overall_status = "cancelled") =>
        LET k == Len(outputs[w])
            tcs == job[w].test_cases
            r == result[w]
        IN /\ k < Len(tcs)
           /\ Len(r.results) = k
           /\ \A i \in 1..k : r.results[i].test_id = tcs[i].id
           /\ r.score = PassedWeight(tcs, r.results, k)
           /\ r.max_score = WeightTotal(tcs, Len(tcs))

C9_Stored(w) ==
    (pc[w] = "store_result" /\ Steps(w) /\ io' = "ok") =>
        resultKey'[job[w].id] = <<result[w]>>

\* C9: when a job is cancelled mid-run after k of its n test cases have
\* executed, the result that is persisted holds exactly k per-test records,
\* those of the first k test cases in order; its score is the sum of the
\* weights of the executed tests that passed and its max_score is the sum of
\* the weights of all n test cases.
C9_PartialScore ==
    [](\A w \in Workers : C9_PartialResult(w)) /\ [][\A w \in Workers : C9_Stored(w)]_vars

\* cancelled after the first test, which passed: one record, the score is
\* that test's weight, max_score counts the tests that never ran
C9_Witness ==
    \E j \in JobIds :
        /\ resultKey[j] # <<>>
        /\ resultKey[j][1].overall_status = "cancelled"
        /\ Len(resultKey[j][1].results) = 1
        /\ resultKey[j][1].results[1].status = "passed"
        /\ resultKey[j][1].score = DefaultWeight
        /\ resultKey[j][1].max_score > DefaultWeight

\* ---------------------------------------------------------------------- C10
C10_Step(w) ==
    /\ (pc'[w] = "execute" /\ Steps(w)) =>
          /\ pc[w] = "precheck"
          /\ ~(is_job_cancelled(job[w].id) /\ io' = "ok")
    /\ (pc'[w] = "run_test" /\ Steps(w)) =>
          /\ pc[w] = "probe"
          /\ ~(is_job_cancelled(job[w].id) /\ io' = "ok")
    /\ (pc[w] \in {"precheck", "probe"} /\ Steps(w)) =>
          /\ UNCHANGED <<store, outputs>>
          /\ pc'[w] \in (IF pc[w] = "precheck" THEN {"execute", "store_cancelled"}
                         ELSE {"run_test", "store_result"})
    /\ pc[w] = "run_test" =>
          /\ Steps(w) =>
                /\ Len(outputs'[w]) = Len(outputs[w]) + 1
                /\ IsPrefix(outputs[w], outputs'[w])
                /\ outputs'[w][Len(outputs'[w])].test_id = job[w].test_cases[Len(outputs'[w])].id
          /\ controlKey' # controlKey => (pc'[w] = pc[w] /\ outputs'[w] = outputs[w])

\* C10: cancellation is cooperative, at fixed checkpoints: execution starts
\* only from the pre-execution check and a test case starts only from the probe
\* at the head of the test loop, one read each, and neither goes on when it
\* reads the flag as set; so once the flag is set no test case whose probe
\* follows is started, while a test case that is running completes and yields
\* its output: setting the flag never interrupts it.
C10_CooperativeCancel == [][\A w \in Workers : C10_Step(w)]_vars

\* the flag is set while a container of the job is running, after an earlier
\* test case of the job has completed
C10_Witness ==
    \E w \in Workers :
        /\ pc[w] = "run_test"
        /\ Len(outputs[w]) >= 1
        /\ is_job_cancelled(job[w].id)

\* ---------------------------------------------------------------------- C11
\* early[j] holds from a cancel request that returned 200 while job j had not
\* been popped (it waited in the main lane) for as long as every read of the
\* job's control key succeeds
C11_NeverExecuted ==
    \A j \in JobIds : early[j] =>
        /\ \A w \in Holders(j) :
              /\ pc[w] \in {"acquire", "precheck", "store_cancelled"}
              /\ outputs[w] = <<>>
        /\ ~InLane(retryQ, j) /\ ~InLane(dlq, j)
        /\ resultKey[j] # <<>> =>
              /\ resultKey[j][1].overall_status = "cancelled"
              /\ resultKey[j][1].results = <<>>
              /\ resultKey[j][1].score = 0

C11_Step(w) ==
    (Steps(w) /\ job[w].id \in JobIds /\ early[job[w].id] /\ early'[job[w].id]) =>
        /\ pc'[w] # "run_test"
        /\ pc[w] = "store_cancelled" /\ io' = "ok" =>
              resultKey'[job[w].id] = <<cancelled_result(job[w])>>

\* C11: when a cancel request for a job has returned 200 before any worker
\* popped the job, and the worker's reads of the control key succeed, no test
\* case of the job is ever run, the job is neither retried nor dead-lettered,
\* and the result stored for it is cancelled with no per-test records.
C11_CancelBeforePop ==
    []C11_NeverExecuted /\ [][\A w \in Workers : C11_Step(w)]_vars

\* a job cancelled while it waited in the main lane has its cancelled result
C11_Witness ==
    \E j \in JobIds :
        /\ early[j]
        /\ resultKey[j] # <<>>
        /\ resultKey[j][1].overall_status = "cancelled"
        /\ events[j] = 1

\* ---------------------------------------------------------------------- C12
\* the step is cancel_job's result lookup for job j
CancelLookupStep(j) ==
    /\ cancelPc[j] = "idle"
    /\ \/ cancelPc'[j] = "set"
       \/ http'.op = "cancel" /\ http'.job_id = j /\ http'.code # 0

\* the step is cancel_job's write of the control flag of job j
CancelSetStep(j) == cancelPc[j] = "set" /\ cancelPc'[j] = "idle"

C12_Step(j) ==
    /\ (CancelLookupStep(j) /\ resultKey[j] # <<>>) =>
          /\ http'.job_id = j /\ http'.code \in {409, 500}
          /\ cancelPc'[j] = "idle"
          /\ UNCHANGED store
    /\ (CancelLookupStep(j) /\ resultKey[j] = <<>>) =>
          /\ http'.code # 409
          /\ http'.code = 0 <=> cancelPc'[j] = "set"
          /\ UNCHANGED store
    /\ CancelSetStep(j) =>
          /\ http'.job_id = j /\ http'.code \in {200, 500}
          /\ http'.code = 200 => controlKey'[j] = <<[cancelled |-> TRUE]>>
          /\ http'.code = 500 => controlKey' = controlKey
          /\ UNCHANGED <<mainQ, retryQ, dlq, resultKey, statusKey, events>>
    /\ (http'.job_id = j /\ http'.code = 409) => (resultKey[j] # <<>> /\ controlKey' = controlKey)
    /\ (http'.job_id = j /\ http'.code = 200) => controlKey'[j] = <<[cancelled |-> TRUE]>>

C13_Step(j) ==
    is_job_cancelled(j) =>
        /\ (CancelLookupStep(j) /\ resultKey[j] = <<>>) =>
              \/ cancelPc'[j] = "set" /\ http'.code = 0
              \/ http' = Response(500, j)
        /\ CancelSetStep(j) =>
              /\ http' \in {Response(200, j), Response(500, j)}
              /\ UNCHANGED store
              /\ controlKey'[j] = <<[cancelled |-> TRUE]>>

\* C13: a cancel request for a job whose flag is already set and whose result
\* key is absent is handled like the first one (it goes on to the write and
\* answers 200, or 500 when a store command fails), and its write leaves the
\* store as the first cancel left it: flag cancelled = true, queues, result
\* and status keys untouched.
C13_CancelIdempotent == [][\A j \in JobIds : C13_Step(j)]_vars

\* a cancel is answered 200 while a worker is about to store the cancelled
\* result it built after reading the flag an earlier cancel had set
C13_Witness ==
    \E w \in Workers :
        /\ pc[w] = "store_cancelled"
        /\ http = Response(200, job[w].id)
        /\ resultKey[job[w].id] = <<>>
        /\ is_job_cancelled(job[w].id)

\* ---------------------------------------------------------------------- C14
\* a job whose result is stored is in no lane a worker pops and in no worker's hands
C14_Settled ==
    \A j \in JobIds : resultKey[j] # <<>> =>
        /\ Holders(j) = {}
        /\ ~InLane(mainQ, j) /\ ~InLane(retryQ, j)

C14_Step(j) ==
    (resultKey[j] # <<>> /\ controlKey'[j] # controlKey[j]) =>
        /\ resultKey' = resultKey
        /\ statusKey' = statusKey
        /\ UNCHANGED <<mainQ, retryQ, dlq, events>>
        /\ UNCHANGED worker

\* C14: once the result key of a job is written, a write of the job's control
\* flag (that of a cancel whose lookup preceded the result and which still
\* answers 200 included) changes neither the result key nor the status key,
\* and no worker acts on the job again: it is held by no worker and waits in
\* no lane, and the write moves no worker.
C14_LateCancelInert == []C14_Settled /\ [][\A j \in JobIds : C14_Step(j)]_vars

\* a cancel that raced with the worker: it is answered 200 and sets the flag
\* for the first time when the result is already stored
C14_Witness ==
    \E j \in JobIds :
        /\ http = Response(200, j)
        /\ resultKey[j] # <<>>
        /\ resultKey[j][1].overall_status # "cancelled"
        /\ is_job_cancelled(j)

\* ---------------------------------------------------------------------- C15
C15_EventImpliesResult ==
    \A j \in AllIds : events[j] > 0 =>
        /\ resultKey[j] # <<>>
        /\ statusKey[j] = <<resultKey[j][1].overall_status>>

C15_Step(j) ==
    /\ events'[j] # events[j] =>
          /\ events'[j] = events[j] + 1
          /\ resultKey'[j] # <<>>
          /\ statusKey'[j] = <<resultKey'[j][1].overall_status>>
          /\ \E w \in Workers : job[w].id = j /\ resultKey'[j] = <<result[w]>>
    /\ \A w \in Workers :
          (/\ job[w].id = j /\ Steps(w)
           /\ pc[w] \in {"store_cancelled", "store_result", "store_failed"}
           /\ (resultKey'[j] # <<result[w]>> \/ statusKey'[j] # <<result[w].overall_status>>))
          => events' = events

\* C15: the completion event of a job is published only when the job's result
\* key and status key have been written with the result the event is about, so
\* whoever receives the event finds the result; when one of the two writes
\* fails no event is published.
C15_EventAfterResult ==
    []C15_EventImpliesResult /\ [][\A j \in AllIds : C15_Step(j)]_vars

\* a completed job: result and status stored, one event published
C15_Witness ==
    \E j \in JobIds :
        /\ events[j] = 1
        /\ resultKey[j] # <<>>
        /\ resultKey[j][1].overall_status = "completed"
        /\ statusKey[j] = <<"completed">>

\* ---------------------------------------------------------------------- C16
\* worker process w is past the permit acquisition of its current iteration
Executing(w) ==
    pc[w] \in {"precheck", "store_cancelled", "execute", "probe", "run_test",
               "store_result", "push_retry", "push_dlq", "store_failed"}

C16_PermitsBalance ==
    \A w \in Workers :
        /\ permits[w] \in 0..MaxParallelJobs
        /\ permits[w] + (IF Executing(w) THEN 1 ELSE 0) = MaxParallelJobs

C16_Step(w) ==
    (~Executing(w) /\ Executing(w)') =>
        /\ pc[w] = "acquire"
        /\ permits[w] > 0
        /\ permits'[w] = permits[w] - 1

\* C16: on one worker process the jobs being executed plus the free permits
\* always number max_parallel_jobs, so at most max_parallel_jobs jobs execute
\* at a time; a job's execution starts only by taking a free permit.
C16_BoundedParallelism ==
    []C16_PermitsBalance /\ [][\A w \in Workers : C16_Step(w)]_vars

\* a test case runs while the process has no free permit left
C16_Witness ==
    \E w \in Workers : pc[w] = "run_test" /\ permits[w] = 0 /\ outputs[w] = <<>>

\* ---------------------------------------------------------------------- C17
RoutingError == "Language routing error"

\* the payload a pop by a worker bound to BoundLanguage returns
PoppedPayload ==
    IF PopSource(BoundLanguage) = "main" THEN Head(mainQ[BoundLanguage])
    ELSE Head(retryQ[BoundLanguage])

C17_Misrouted ==
    /\ \A w \in Workers :
          (job[w] # NoJob /\ job[w].language # BoundLanguage) =>
              /\ pc[w] = "misrouted"
              /\ outputs[w] = <<>> /\ result[w] = NoResult
              /\ job[w].metadata.last_failure_reason = RoutingError
    /\ \A l \in Languages : \A i \in 1..Len(dlq[l]) :
          dlq[l][i].language # BoundLanguage =>
              /\ dlq[l][i].metadata.last_failure_reason = RoutingError
              /\ dlq[l][i].metadata.attempts = 0
              /\ resultKey[dlq[l][i].id] = <<>>
              /\ statusKey[dlq[l][i].id] = <<>>
              /\ events[dlq[l][i].id] = 0

C17_Step(w) ==
    /\ (pc[w] = "pop" /\ Steps(w) /\ PoppedPayload.language # BoundLanguage) =>
          /\ pc'[w] = "misrouted"
          /\ job'[w] = [PoppedPayload EXCEPT !.metadata.last_failure_reason = RoutingError]
    /\ (pc[w] = "misrouted" /\ Steps(w)) =>
          /\ pc'[w] = "pop"
          /\ io' = "ok" => dlq' = [dlq EXCEPT ![job[w].language] = Append(@, job[w])]
          /\ UNCHANGED <<mainQ, retryQ, resultKey, statusKey, controlKey, events, permits>>

\* C17: a popped job whose language is not the worker's gets a routing-error
\* last_failure_reason and nothing else of it changes (attempts included); the
\* worker's next step appends it to the dead-letter queue and returns to the
\* pop. The job is never executed, and no result key, status key or
\* completion event is written for it.
C17_MisroutedToDlq == []C17_Misrouted /\ [][\A w \in Workers : C17_Step(w)]_vars

\* the misrouted payload is in the dead-letter queue and the worker is back at the pop
C17_Witness ==
    /\ \E l \in Languages : \E i \in 1..Len(dlq[l]) :
          /\ dlq[l][i].language # BoundLanguage
          /\ dlq[l][i].metadata.last_failure_reason = RoutingError
    /\ \A w \in Workers : pc[w] = "pop"

\* ---------------------------------------------------------------------- C18
\* the result of a job is written by the last step of the attempt that holds it
C18_WrittenLast ==
    \A w \in Workers : job[w].id \in JobIds => resultKey[job[w].id] = <<>>

C18_Step ==
    /\ \A j \in AllIds : resultKey[j] # <<>> => resultKey'[j] = resultKey[j]
    /\ \A j \in AllIds : resultKey'[j] # resultKey[j] =>
          \E w \in Workers :
              /\ job[w].id = j
              /\ pc[w] \in {"store_cancelled", "store_result", "store_failed"}
              /\ pc'[w] = "pop" /\ job'[w] = NoJob
              /\ resultKey' = [resultKey EXCEPT ![j] = <<result[w]>>]
    /\ \A w \in Workers :
          (pc[w] \in {"execute", "push_retry"} /\ Steps(w)) =>
              UNCHANGED <<resultKey, statusKey, events>>

\* C18: the result key of a job is written only by the final step of a
\* terminal attempt (cancelled, evaluated, or failed after the DLQ push), one
\* write per attempt; an attempt that ends in the retry lane writes no result;
\* and a result key that is present is never written again.
C18_ResultWrittenOnce == []C18_WrittenLast /\ [][C18_Step]_vars

\* a job that was retried is at the write of its terminal attempt, and the
\* earlier attempts have left no result
C18_Witness ==
    \E w \in Workers :
        /\ pc[w] = "store_result"
        /\ job[w].metadata.attempts >= 1
        /\ resultKey[job[w].id] = <<>>
        /\ result[w].overall_status = "completed"

\* ---------------------------------------------------------------------- C19
\* C19: a worker that exits on the termination signal holds no job: a job it
\* had popped was first carried to its result write or its re-enqueue, so no
\* popped job is left without a result and outside every lane.
C19_GracefulShutdown ==
    \A w \in Workers :
        (pc[w] = "exited" /\ job[w].id \in JobIds) =>
            \/ resultKey[job[w].id] # <<>>
            \/ InLane(mainQ, job[w].id)
            \/ InLane(retryQ, job[w].id)
            \/ InLane(dlq, job[w].id)

\* ---------------------------------------------------------------------- C20
\* C20: a container that was created is removed exactly once: Docker never
\* serves two removals of it, and once its call has ended (its guard is gone)
\* and no removal of it is pending it has been removed.
C20_RemovedExactlyOnce ==
    \A c \in ContainerIds :
        /\ removals[c] <= 1
        /\ (containers[c] # "absent" /\ guard # c /\ c \notin cleanups) =>
              (containers[c] = "removed" /\ removals[c] = 1)

\* ---------------------------------------------------------------------- C21
\* s ends with m
EndsWith(s, m) == Len(m) <= Len(s) /\ SubSeq(s, Len(s) - Len(m) + 1, Len(s)) = m

\* the call that is in progress or has just returned runs container `calls`
C21_Step ==
    /\ (ePc = "kill" /\ ePc' = "idle") =>
          /\ kills' = [kills EXCEPT ![calls] = kills[calls] + 1]
          /\ ret' # <<>> /\ ret'[1].ok
          /\ ret'[1].output.timed_out
          /\ ~ret'[1].output.runtime_error
          /\ ret'[1].output.stdout = <<>>
          /\ EndsWith(ret'[1].output.stderr, TimeoutMarker)
    /\ (ePc = "wait" /\ ePc' = "idle") =>
          /\ kills' = kills /\ kills[calls] = 0
          /\ ret' # <<>> /\ ret'[1].ok
          /\ ~ret'[1].output.timed_out

C21_KilledIffTimedOut ==
    (ePc = "idle" /\ ret # <<>> /\ ret[1].ok) =>
        (ret[1].output.timed_out <=> kills[calls] = 1)

C22_Finished ==
    /\ ePc = "idle" /\ ret # <<>> /\ ret[1].ok
    /\ captured # <<>> /\ captured[1].kind = "exit" /\ captured[1].code # NoExitCode

\* C22 as stated: exit code 0 gives runtime_error = false; every non-zero exit
\* code gives runtime_error = true with the stderr annotated, for 137 with the
\* OOM marker, for 139 with the segmentation-fault marker and for every other
\* code with a generic marker; the captured stderr is a prefix of the returned
\* stderr.
C22_AsStated ==
    C22_Finished =>
        LET run == captured[1]
            out == ret[1].output
        IN /\ out.runtime_error = (run.code # 0)
           /\ IsPrefix(run.stderr, out.stderr)
           /\ run.code = 137 => EndsWith(out.stderr, OomMarker)
           /\ run.code = 139 => EndsWith(out.stderr, SegvMarker)
           /\ run.code \notin {0, 137, 139} => out.stderr # run.stderr

\* C22 (amended): exit code 0 gives runtime_error = false and every non-zero
\* exit code gives runtime_error = true; the returned stderr is the captured
\* stderr followed by the OOM marker for 137 and by the segmentation-fault
\* marker for 139, and is the captured stderr unchanged, with no marker, for
\* every other exit code; so the captured stderr is always a prefix of it.
C22_ExitClassification ==
    C22_Finished =>
        LET run == captured[1]
            out == ret[1].output
        IN /\ out.runtime_error = (run.code # 0)
           /\ ~out.timed_out
           /\ out.stdout = run.stdout
           /\ IsPrefix(run.stderr, out.stderr)
           /\ out.stderr = IF run.code = 137 THEN run.stderr \o OomMarker
                           ELSE IF run.code = 139 THEN run.stderr \o SegvMarker
                           ELSE run.stderr

\* a program that wrote to stderr and exited with status 1
C22_Witness ==
    /\ C22_Finished
    /\ captured[1].code = 1 /\ captured[1].stderr = <<"e">>
    /\ ret[1].output.runtime_error
    /\ ret[1].output.stderr = <<"e">>

\* ---------------------------------------------------------------------- C23
\* the sum of the weights, in the integers
RECURSIVE ExactSum(_)
ExactSum(tcs) == IF tcs = <<>> THEN 0 ELSE tcs[1].weight + ExactSum(Tail(tcs))

\* the sum, in the integers, of the weights of the test cases whose record in
\* results says passed
RECURSIVE ExactPassed(_, _)
ExactPassed(tcs, results) ==
    IF results = <<>> THEN 0
    ELSE (IF Head(results).status = "passed"
          THEN FindTestCase(tcs, Head(results).test_id).weight ELSE 0)
         + ExactPassed(tcs, Tail(results))

\* C23: for every job and every sequence of outputs with distinct test ids
\* drawn from the job's test cases, evaluate returns a result whose score is the
\* sum of the weights of exactly the test cases whose status is passed, with
\* 0 <= score <= max_score.
C23_ScoreIsPassedWeight ==
    sReturned.by = "evaluate" =>
        /\ sReturned.kind = "result"
        /\ sReturned.value.score = ExactPassed(sJob.test_cases, sReturned.value.results)
        /\ 0 <= sReturned.value.score
        /\ sReturned.value.score <= sReturned.value.max_score

\* ---------------------------------------------------------------------- C24
\* C24: in every result the worker persists (evaluated, cancelled before
\* execution, failed after retry exhaustion) max_score is the sum of the
\* weights of all test cases of the job, executed or not.
C24_MaxScoreIsTotalWeight ==
    sReturned.kind = "result" =>
        sReturned.value.max_score = ExactSum(sJob.test_cases)

\* ---------------------------------------------------------------------- C25
\* the records of r that say passed
PassedRecords(r) == {i \in 1..Len(r.results) : r.results[i].status = "passed"}

Core(s) ==
    LET inner == {i \in 1..Len(s) : s[i] \notin WS}
    IN IF inner = {} THEN <<>>
       ELSE SubSeq(s, CHOOSE i \in inner : \A k \in inner : i <= k,
                      CHOOSE i \in inner : \A k \in inner : k <= i)

\* C26: the status of every record follows the precedence: runtime_error when
\* the output's runtime_error flag is set, whatever timed_out and stdout are;
\* else time_limit_exceeded when timed_out is set, whatever stdout is; else
\* passed exactly when stdout and expected_output are equal once leading and
\* trailing whitespace is removed, and failed otherwise.
C26_StatusPrecedence ==
    (sReturned.by = "evaluate" /\ sReturned.kind = "result") =>
        /\ Len(sReturned.value.results) = Len(sOutputs)
        /\ \A i \in 1..Len(sOutputs) :
              LET o == sOutputs[i]
                  tc == FindTestCase(sJob.test_cases, o.test_id)
                  status == sReturned.value.results[i].status
              IN /\ o.runtime_error => status = "runtime_error"
                 /\ (~o.runtime_error /\ o.timed_out) => status = "time_limit_exceeded"
                 /\ (~o.runtime_error /\ ~o.timed_out) =>
                       status = IF Core(o.stdout) = Core(tc.expected_output)
                                THEN "passed" ELSE "failed"

\* an output with both flags set and a matching stdout, classified as a
\* runtime error, next to a clean one that passed after trimming
C26_Witness ==
    /\ sReturned.by = "evaluate" /\ sReturned.kind = "result"
    /\ \E i \in 1..Len(sOutputs) :
          /\ sOutputs[i].runtime_error /\ sOutputs[i].timed_out
          /\ sOutputs[i].stdout = <<" ", "a">>
          /\ sReturned.value.results[i].status = "runtime_error"
    /\ \E i \in 1..Len(sOutputs) :
          /\ sOutputs[i].stdout # FindTestCase(sJob.test_cases, sOutputs[i].test_id).expected_output
          /\ sReturned.value.results[i].status = "passed"

\* ---------------------------------------------------------------------- C27
\* the records of results are those of the first Len(results) test cases, in order
InDeclaredOrder(tcs, results) ==
    /\ Len(results) <= Len(tcs)
    /\ \A i \in 1..Len(results) : results[i].test_id = tcs[i].id

C27_Prefix ==
    \A w \in Workers :
        /\ InDeclaredOrder(job[w].test_cases, outputs[w])
        /\ InDeclaredOrder(job[w].test_cases, evaluate(job[w], outputs[w]).results)
        /\ pc[w] = "store_result" => InDeclaredOrder(job[w].test_cases, result[w].results)

C27_Step(w) ==
    /\ (pc[w] = "run_test" /\ Steps(w)) =>
          /\ Len(outputs'[w]) = Len(outputs[w]) + 1
          /\ IsPrefix(outputs[w], outputs'[w])
          /\ outputs'[w][Len(outputs'[w])].test_id = job[w].test_cases[Len(outputs[w]) + 1].id
    /\ (pc[w] # "run_test" /\ pc'[w] # "pop") => outputs'[w] = outputs[w]
    /\ (pc[w] = "store_result" /\ resultKey'[job[w].id] # resultKey[job[w].id]) =>
          /\ resultKey'[job[w].id] # <<>>
          /\ InDeclaredOrder(job[w].test_cases, resultKey'[job[w].id][1].results)

\* C27: within one job the test cases run one at a time in declared order, each
\* run appending one output for the next test case, and the records of the
\* result are the order-preserving image of a prefix of the job's test cases:
\* results[i].test_id = test_cases[i].id.
C27_DeclaredOrder == []C27_Prefix /\ [][\A w \in Workers : C27_Step(w)]_vars

\* a job of three test cases stopped after two: both records stored, in order
C27_Witness ==
    \E j \in JobIds :
        /\ resultKey[j] # <<>>
        /\ Len(resultKey[j][1].results) = 2
        /\ resultKey[j][1].results[1].test_id = 1
        /\ resultKey[j][1].results[2].test_id = 2
        /\ resultKey[j][1].max_score = WeightTotal(<<TestCase(1, 10), TestCase(2, 15), TestCase(3, 20)>>, 3)

\* ---------------------------------------------------------------------- C28
\* the request is within every limit the claim names
WithinLimits(req) ==
    /\ Len(req.tests) \in 1..100
    /\ req.source_len <= 100000
    /\ ~req.source_blank
    /\ \A i \in 1..Len(req.tests) :
          req.tests[i].input_len <= 10000 /\ req.tests[i].expected_len <= 10000
    /\ req.timeout_ms \in 1..60000

C28_Step ==
    http'.op = "submit" =>
        /\ http'.code # 400 <=> WithinLimits(http'.request)
        /\ http'.code = 400 => UNCHANGED <<store, nextId>>
        /\ http'.code \in {201, 400, 500}

\* C28: submit accepts a request exactly when it has 1 to 100 test cases, a
\* source of at most 100 000 bytes that is not empty after trimming, every
\* input and expected output within 10 000 bytes and 1 <= timeout_ms <= 60 000;
\* every other request is answered 400 and leaves all queues and keys as they
\* were.
C28_Validation == [][C28_Step]_vars

\* a request at every upper limit was accepted and queued
C28_Witness ==
    /\ http.op = "submit" /\ http.code = 201
    /\ http.request.source_len = 100000
    /\ http.request.timeout_ms = 60000
    /\ Len(http.request.tests) = 100
    /\ InLane(mainQ, http.job_id)

\* ---------------------------------------------------------------------- C29
\* job id j is nowhere in the store and no worker holds it
Unused(j) ==
    /\ Queued(j) = 0 /\ Count(dlq, j) = 0 /\ Holders(j) = {}
    /\ resultKey[j] = <<>> /\ statusKey[j] = <<>> /\ controlKey[j] = <<>>

C29_Step ==
    (http'.op = "submit" /\ http'.code # 400) =>
        LET lang == http'.request.language
            j == http'.job_id
        IN /\ http'.code \in {201, 500}
           /\ Unused(j)
           /\ UNCHANGED <<retryQ, dlq, resultKey, statusKey, controlKey, events>>
           /\ \A l \in Languages \ {lang} : mainQ'[l] = mainQ[l]
           /\ http'.code = 500 => mainQ' = mainQ
           /\ http'.code = 201 =>
                 /\ Len(mainQ'[lang]) = Len(mainQ[lang]) + 1
                 /\ IsPrefix(mainQ[lang], mainQ'[lang])
                 /\ LET new == mainQ'[lang][Len(mainQ'[lang])]
                    IN /\ new.id = j
                       /\ new.language = lang
                       /\ new.metadata.attempts = 0
                       /\ new.metadata.max_attempts = 3
                       /\ new.metadata.last_failure_reason = NoReason
                       /\ Len(new.test_cases) = Len(http'.request.tests)

\* C29: an accepted submission appends exactly one job at the tail of the main
\* queue of the job's own language and touches no other lane or queue; the job
\* has a fresh id and metadata attempts = 0, max_attempts = 3, no failure
\* reason, and the response is 201; when the push fails the response is 500
\* and no queue changes.
C29_AcceptedIsQueued == [][C29_Step]_vars

\* the second job was accepted while the first still waited: it is behind it
C29_Witness ==
    /\ http.op = "submit" /\ http.code = 201 /\ http.job_id = 2
    /\ \E l \in Languages :
          /\ Len(mainQ[l]) = 2
          /\ mainQ[l][1].id = 1 /\ mainQ[l][2].id = 2

\* ---------------------------------------------------------------------- C30
\* the ids of the test cases are 1, 2, ..., n in order
Sequential(tcs) == \A i \in 1..Len(tcs) : tcs[i].id = i

C30_Ids ==
    /\ \A l \in Languages : \A Q \in {mainQ, retryQ, dlq} : \A i \in 1..Len(Q[l]) :
          Q[l][i].id \in JobIds => Sequential(Q[l][i].test_cases)
    /\ \A w \in Workers :
          /\ job[w].id \in JobIds => Sequential(job[w].test_cases)
          /\ \A i \in 1..Len(outputs[w]) :
                /\ outputs[w][i].test_id = job[w].test_cases[i].id
                /\ Cardinality({k \in 1..Len(job[w].test_cases) :
                                   job[w].test_cases[k].id = outputs[w][i].test_id}) = 1

C30_Step ==
    (http'.op = "submit" /\ http'.code = 201) =>
        LET lang == http'.request.language
            new == mainQ'[lang][Len(mainQ'[lang])]
        IN /\ Len(new.test_cases) = Len(http'.request.tests)
           /\ \A i \in 1..Len(new.test_cases) :
                 /\ new.test_cases[i].id = i
                 /\ new.test_cases[i].weight = http'.request.tests[i].weight

\* C30: submit gives the test cases of an accepted job the ids 1, 2, ..., n in
\* request order, so they are pairwise distinct; every output a worker has
\* accumulated carries the id of the test case it was run for, and exactly one
\* test case of the job has that id.
C30_TestIds == []C30_Ids /\ [][C30_Step]_vars

\* two of three test cases have run; their outputs carry the ids 1 and 2
C30_Witness ==
    \E w \in Workers :
        /\ Len(job[w].test_cases) = 3
        /\ Len(outputs[w]) = 2
        /\ outputs[w][1].test_id = 1 /\ outputs[w][2].test_id = 2

\* ---------------------------------------------------------------------- C31
\* what the submitter gave: everything of a job but its metadata
UserInputs(p) ==
    [id |-> p.id, language |-> p.language, source_code |-> p.source_code,
     test_cases |-> p.test_cases, timeout_ms |-> p.timeout_ms]

\* the payloads of the lanes mq, rq, dq and the jobs jb the workers hold
PayloadsOf(mq, rq, dq, jb) ==
    UNION {{Q[l][i] : i \in 1..Len(Q[l])} : l \in Languages, Q \in {mq, rq, dq}}
    \cup {jb[w] : w \in {x \in Workers : jb[x] # NoJob}}

\* the job the request of an accepted submission describes
C31_AsSubmitted(p, req) ==
    /\ p.language = req.language
    /\ p.source_code = SourceCode(req.source_len, req.source_blank)
    /\ p.timeout_ms = req.timeout_ms
    /\ Len(p.test_cases) = Len(req.tests)
    /\ \A i \in 1..Len(req.tests) :
          p.test_cases[i] = TestCase(i, req.tests[i].weight)
    /\ p.metadata = JobMetadataDefault

C31_Step ==
    /\ \A q \in PayloadsOf(mainQ', retryQ', dlq', job') :
          LET before == {p \in PayloadsOf(mainQ, retryQ, dlq, job) : p.id = q.id}
          IN IF before = {}
             THEN /\ http'.op = "submit" /\ http'.code = 201 /\ http'.job_id = q.id
                  /\ C31_AsSubmitted(q, http'.request)
             ELSE /\ \A p \in before : UserInputs(q) = UserInputs(p)
                  /\ \A p \in before : q.metadata.max_attempts = p.metadata.max_attempts
    /\ \A w \in Workers :
          (job[w] # NoJob /\ job'[w] # NoJob /\ job'[w] # job[w]) =>
              /\ pc[w] = "execute" /\ pc'[w] \in {"push_retry", "push_dlq"}
              /\ job'[w] = [job[w] EXCEPT !.metadata.attempts = job'[w].metadata.attempts,
                                          !.metadata.last_failure_reason =
                                              job'[w].metadata.last_failure_reason]
    /\ \A w \in Workers :
          (pc[w] = "pop" /\ Steps(w)) =>
              LET head == IF mainQ[BoundLanguage] # <<>> THEN Head(mainQ[BoundLanguage])
                          ELSE Head(retryQ[BoundLanguage])
              IN /\ UserInputs(job'[w]) = UserInputs(head)
                 /\ job'[w].metadata # head.metadata =>
                       /\ pc'[w] = "misrouted"
                       /\ job'[w].metadata =
                             [head.metadata EXCEPT !.last_failure_reason =
                                                       job'[w].metadata.last_failure_reason]
    /\ \A l \in Languages : \A Q \in {<<retryQ, retryQ'>>, <<dlq, dlq'>>} :
          Len(Q[2][l]) > Len(Q[1][l]) =>
              \E w \in Workers :
                  /\ pc[w] \in {"push_retry", "push_dlq", "misrouted"}
                  /\ Q[2][l] = Append(Q[1][l], job[w])

\* C31: from its submission on, through every pop and every push to a retry
\* or dead-letter lane, the id, language, source_code, test_cases and
\* timeout_ms of a job stay what the request gave; a worker changes only
\* metadata.attempts and metadata.last_failure_reason, and only on the paths
\* that push the job to the retry lane or the dead-letter lane, and the lane
\* receives the job exactly as the worker holds it.
C31_WriteOnce == [][C31_Step]_vars

\* a job of several test cases that failed twice is held by a worker again;
\* only its metadata differs from what was submitted
C31_Witness ==
    \E w \in Workers :
        /\ job[w].id \in JobIds
        /\ job[w].metadata.attempts = 2
        /\ job[w].metadata.last_failure_reason = "Execution error"
        /\ Len(job[w].test_cases) = MaxTests
        /\ pc[w] = "run_test"

\* ---------------------------------------------------------------------- C32
\* the output records a crash (non-zero exit) or a timeout
C32_Issue(o) == o.runtime_error \/ o.timed_out

C32_Step(w) ==
    /\ (pc[w] = "run_test" /\ Steps(w)) =>
          LET k == Len(outputs'[w])
          IN /\ k = Len(outputs[w]) + 1
             /\ IsPrefix(outputs[w], outputs'[w])
             /\ job'[w] = job[w]
             /\ UNCHANGED store
             /\ pc'[w] = IF k < Len(job[w].test_cases) THEN "probe" ELSE "store_result"
    /\ (pc[w] = "probe" /\ Steps(w)) =>
          /\ outputs'[w] = outputs[w]
          /\ pc'[w] = IF is_job_cancelled(job[w].id) /\ io' = "ok"
                      THEN "store_result" ELSE "run_test"

C32_Confined ==
    \A w \in Workers : pc[w] = "store_result" =>
        LET r == result[w]
            tcs == job[w].test_cases
        IN /\ Len(r.results) = Len(outputs[w])
           /\ r.overall_status # "cancelled" => Len(r.results) = Len(tcs)
           /\ \A i \in 1..Len(r.results) :
                 /\ r.results[i].test_id = tcs[i].id
                 /\ r.results[i].status =
                       (IF outputs[w][i].runtime_error THEN "runtime_error"
                        ELSE IF outputs[w][i].timed_out THEN "time_limit_exceeded"
                        ELSE IF trim(outputs[w][i].stdout) = trim(tcs[i].expected_output)
                        THEN "passed" ELSE "failed")
                 /\ r.results[i].stdout = outputs[w][i].stdout
                 /\ r.results[i].stderr = outputs[w][i].stderr

\* C32: a test case that ends with a runtime error or a timeout does not stop
\* the job: the loop goes on to the probe of the next test case and, unless
\* that probe reads the flag as set, to its execution, so a result that is not
\* cancelled has one record per test case; each record's status and output are
\* those of its own run only, and the job is neither retried nor touched.
C32_IssueConfined == []C32_Confined /\ [][\A w \in Workers : C32_Step(w)]_vars

\* the first test case crashed, the second timed out, the third passed
C32_Witness ==
    \E j \in JobIds :
        /\ resultKey[j] # <<>>
        /\ Len(resultKey[j][1].results) = 3
        /\ resultKey[j][1].results[1].status = "runtime_error"
        /\ resultKey[j][1].results[2].status = "time_limit_exceeded"
        /\ resultKey[j][1].results[3].status = "passed"
        /\ resultKey[j][1].overall_status = "completed"

\* ---------------------------------------------------------------------- C33
\* positions of worker_loop at which the worker holds a popped job and has
\* neither written a result for it nor pushed it to a lane
C33_InFlight ==
    {"misrouted", "acquire", "precheck", "execute", "probe", "run_test",
     "push_retry", "push_dlq", "store_cancelled", "store_result"}

\* job id j is in no lane, has no result, a lookup of it answers pending, and
\* no running worker holds it
C33_LostIn(mq, rq, dq, rk, jb, p, j) ==
    /\ ~InLane(mq, j) /\ ~InLane(rq, j) /\ ~InLane(dq, j)
    /\ rk[j] = <<>>
    /\ \A w \in Workers : jb[w].id = j => p[w] = "exited"

C33_Lost(j) ==
    /\ C33_LostIn(mainQ, retryQ, dlq, resultKey, job, pc, j)
    /\ get_job_result(j, TRUE) = [code |-> 202, status |-> "pending"]

C33_Step ==
    /\ \A w \in Workers :
          (pc[w] \in C33_InFlight /\ pc'[w] = "exited") =>
              C33_LostIn(mainQ', retryQ', dlq', resultKey', job', pc', job[w].id)
    /\ \A j \in AllIds :
          ((\E w \in Workers : pc[w] = "exited" /\ job[w].id = j) /\ C33_Lost(j)) =>
              /\ C33_LostIn(mainQ', retryQ', dlq', resultKey', job', pc', j)
              /\ statusKey'[j] = statusKey[j]
              /\ events'[j] = events[j]

C33_LookupPending ==
    \A j \in AllIds :
        C33_LostIn(mainQ, retryQ, dlq, resultKey, job, pc, j) =>
            get_job_result(j, TRUE) = [code |-> 202, status |-> "pending"]

\* C33: when the loop of a worker is dropped while it holds a popped job for
\* which it has neither written a result nor made a push, the job is in no
\* main, retry or dead-letter lane and has no result key; from then on no step
\* of any worker or handler puts it into a lane, hands it to a running worker
\* or writes its result, status or completion event, so a status lookup of it
\* answers pending in every later state.
C33_NoLease == []C33_LookupPending /\ [][C33_Step]_vars

\* the only job of the run was dropped during its first attempt; a worker
\* waits at the pop of empty lanes
C33_Witness ==
    \E w \in Workers :
        /\ pc[w] = "exited"
        /\ job[w].id \in JobIds
        /\ job[w].metadata.attempts = 0
        /\ C33_Lost(job[w].id)
        /\ \E v \in Workers : pc[v] = "pop"
        /\ \A l \in Languages : mainQ[l] = <<>> /\ retryQ[l] = <<>>
        /\ nextId > limits.jobs

\* ---------------------------------------------------------------------- C34
\* the payloads of the lanes Q
LanePayloads(Q) == UNION {{Q[l][i] : i \in 1..Len(Q[l])} : l \in Languages}

C34_Budget ==
    /\ \A p \in LanePayloads(retryQ) :
          1 <= p.metadata.attempts /\ p.metadata.attempts < p.metadata.max_attempts
    /\ \A p \in LanePayloads(dlq) :
          p.metadata.last_failure_reason = "Execution error" =>
              p.metadata.attempts = p.metadata.max_attempts
    /\ \A p \in LanePayloads(mainQ) : p.metadata.attempts = 0
    /\ \A j \in JobIds :
          /\ tally[j].executions <= DefaultMaxAttempts
          /\ tally[j].retries <= DefaultMaxAttempts - 1
    /\ \A w \in Workers : job[w].id \in JobIds =>
          /\ job[w].metadata.max_attempts = DefaultMaxAttempts
          /\ pc[w] \in {"acquire", "precheck", "execute"} =>
                /\ job[w].metadata.attempts = tally[job[w].id].executions
                /\ job[w].metadata.attempts < DefaultMaxAttempts

C34_Step(w) ==
    /\ (pc[w] = "execute" /\ Steps(w)) =>
          tally'[job[w].id].executions = tally[job[w].id].executions + 1
    /\ (pc[w] # "execute" \/ ~Steps(w)) =>
          \A j \in AllIds : Holders(j) = {w} => tally'[j].executions = tally[j].executions
    /\ \A j \in AllIds :
          tally'[j].retries = tally[j].retries + (Count(retryQ', j) - Count(retryQ, j))
          \/ (Count(retryQ', j) < Count(retryQ, j) /\ tally'[j].retries = tally[j].retries)

\* C34: every payload of a retry lane has 1 <= attempts < max_attempts, and
\* every payload the retry exhaustion sent to a dead-letter lane has attempts
\* = max_attempts; a job submitted through the front-end (attempts 0,
\* max_attempts 3) starts an execution only with attempts < 3, each execution
\* being counted once, so it is executed at most 3 times and pushed to a retry
\* lane at most 2 times.
C34_RetryBudget == []C34_Budget /\ [][\A w \in Workers : C34_Step(w)]_vars

\* a job has used its whole budget: three executions, two retry pushes, and
\* it lies in the dead-letter lane with attempts = max_attempts
C34_Witness ==
    \E j \in JobIds :
        /\ tally[j] = [executions |-> DefaultMaxAttempts, retries |-> DefaultMaxAttempts - 1]
        /\ \E p \in LanePayloads(dlq) :
              p.id = j /\ p.metadata.attempts = p.metadata.max_attempts

\* ---------------------------------------------------------------------- C35
\* job id j waits in the main lane the workers consume
C35_Accepted(j) == \E i \in 1..Len(mainQ[BoundLanguage]) : mainQ[BoundLanguage][i].id = j

C35_Terminal(j) ==
    /\ resultKey[j] # <<>>
    /\ resultKey[j][1].overall_status \in {"completed", "failed", "cancelled"}

C35_WithinBudget == \A j \in JobIds : tally[j].executions <= DefaultMaxAttempts

\* C35 as stated: every job accepted into the main lane of the workers'
\* language eventually has its result key written
C35_AsStated == \A j \in JobIds : C35_Accepted(j) ~> C35_Terminal(j)

\* C35: while a worker of the job's language keeps running, the store answers
\* every command and every engine call returns, a job accepted by submit is
\* executed at most max_attempts times; and if only finitely many jobs are
\* submitted, its result key is eventually written (completed, failed or
\* cancelled).
C35_Termination ==
    /\ []C35_WithinBudget
    /\ \A j \in JobIds :
          <>[][http'.op # "submit"]_vars => (C35_Accepted(j) ~> C35_Terminal(j))

\* a job that failed twice and was queued for retry twice has its result
C35_Witness ==
    \E j \in JobIds :
        /\ C35_Terminal(j)
        /\ tally[j] = [executions |-> 3, retries |-> 2]
        /\ resultKey[j][1].overall_status = "completed"

\* ---------------------------------------------------------------------- C36
\* the positions from which an iteration that holds a permit ends
C36_Ends == {"store_cancelled", "push_retry", "store_failed", "store_result"}

C36_AllFreeAtPop ==
    \A w \in Workers :
        pc[w] \in {"pop", "misrouted", "acquire"} => permits[w] = MaxParallelJobs

C36_Step(w) ==
    /\ (pc[w] \in C36_Ends /\ Steps(w)) =>
          /\ pc'[w] = "pop"
          /\ permits'[w] = permits[w] + 1
          /\ permits'[w] = MaxParallelJobs
    /\ (pc[w] = "push_dlq" /\ Steps(w)) =>
          pc'[w] = "store_failed" /\ permits'[w] = permits[w]
    /\ (pc[w] \in {"pop", "misrouted"} /\ Steps(w)) =>
          /\ permits'[w] = permits[w]
          /\ pc[w] = "misrouted" => pc'[w] = "pop"
    /\ (pc'[w] = "pop" /\ Steps(w)) => pc[w] \in C36_Ends \cup {"misrouted"}
    /\ permits'[w] < permits[w] => (pc[w] = "acquire" /\ permits'[w] = permits[w] - 1)

\* C36: every way an iteration of the worker loop that took a permit can end
\* (cancelled before execution, execution error with retry, execution error
\* with dead-lettering, completion), whether its store commands succeed or
\* fail, gives the permit back in the step that returns to the pop, so all
\* max_parallel_jobs permits are free at every pop; the language-mismatch path
\* takes none and gives none back.
C36_NoPermitLeak == []C36_AllFreeAtPop /\ [][\A w \in Workers : C36_Step(w)]_vars

\* a worker is back at the pop with its permit free after a store command of
\* the iteration that executed the job has failed: the job is gone
C36_Witness ==
    \E w \in Workers : \E j \in JobIds :
        /\ pc[w] = "pop" /\ io = "err"
        /\ permits[w] = MaxParallelJobs
        /\ tally[j].executions = 1 /\ tally[j].retries = 0
        /\ resultKey[j] = <<>>
        /\ Queued(j) = 0 /\ Holders(j) = {} /\ ~InLane(dlq, j)

\* ---------------------------------------------------------------------- C37
\* a cancel request has written the control key of job j: cancelled = true
C37_FlagSet(j) == controlKey[j] = <<[cancelled |-> TRUE]>>

C37_OnlyIfFlagged ==
    /\ \A j \in AllIds :
          /\ (resultKey[j] # <<>> /\ resultKey[j][1].overall_status = "cancelled") => C37_FlagSet(j)
          /\ statusKey[j] = <<"cancelled">> => C37_FlagSet(j)
    /\ \A w \in Workers :
          /\ result[w].overall_status = "cancelled" => C37_FlagSet(result[w].job_id)
          /\ pc[w] = "store_cancelled" => C37_FlagSet(job[w].id)

C37_Step ==
    /\ \A j \in AllIds :
          /\ controlKey'[j] # controlKey[j] =>
                /\ cancelPc[j] = "set" /\ cancelPc'[j] = "idle"
                /\ http' = Response(200, j)
                /\ C37_FlagSet(j)'
          /\ (resultKey'[j] # resultKey[j] /\ resultKey'[j][1].overall_status = "cancelled") =>
                C37_FlagSet(j) /\ controlKey'[j] = controlKey[j]
    /\ \A w \in Workers :
          (pc[w] \in {"precheck", "probe"} /\ Steps(w) /\ controlKey[job[w].id] = <<>>) =>
              /\ pc'[w] = IF pc[w] = "precheck" THEN "execute" ELSE "run_test"
              /\ result'[w] = result[w]

\* C37: a result with overall_status = cancelled is written for a job only
\* when the job's control key holds cancelled = true, and the control key is
\* written only by a cancel request for that id that answers 200; a probe that
\* finds no control key reads not cancelled and execution goes on, so a job
\* whose control key was never written never ends cancelled.
C37_NoSpuriousCancel == []C37_OnlyIfFlagged /\ [][C37_Step]_vars

\* of two jobs, the one a cancel was requested for ended cancelled; the other,
\* whose control key does not exist, ran and ended otherwise
C37_Witness ==
    \E j, k \in JobIds :
        /\ j # k
        /\ resultKey[j] # <<>> /\ resultKey[j][1].overall_status = "cancelled"
        /\ C37_FlagSet(j)
        /\ resultKey[k] # <<>> /\ resultKey[k][1].overall_status \in {"completed", "failed"}
        /\ controlKey[k] = <<>>

\* ---------------------------------------------------------------------- C38
\* worker w makes a cancellation probe whose read of the control key fails
C38_FailedProbe(w) == pc[w] \in {"precheck", "probe"} /\ Steps(w) /\ io' = "err"

C38_Step(w) ==
    /\ C38_FailedProbe(w) =>
          /\ pc'[w] = IF pc[w] = "precheck" THEN "execute" ELSE "run_test"
          /\ result'[w] = result[w]
          /\ job'[w] = job[w]
          /\ outputs'[w] = outputs[w]
          /\ permits'[w] = permits[w]
          /\ UNCHANGED store
    /\ (Steps(w) /\ pc'[w] = "store_cancelled") => (pc[w] = "precheck" /\ io' = "ok")
    /\ (Steps(w) /\ pc[w] = "probe" /\ pc'[w] = "store_result") => io' = "ok"

\* C38: when the read of the control key fails, the pre-execution check and
\* the per-test check both go on as if the job were not cancelled, to the
\* execution of the job and of the next test case, whatever the flag holds;
\* the worker builds no result in that step, and a cancelled result is built
\* and the test loop is left early only by a probe whose read succeeded.
C38_FailOpen == [][\A w \in Workers : C38_Step(w)]_vars

\* the flag of the only job is set, yet its next test case runs: the last step
\* was the probe of its worker, and the read failed
C38_Witness ==
    \E w \in Workers :
        /\ pc[w] = "run_test" /\ io = "err"
        /\ Len(outputs[w]) >= 1
        /\ controlKey[job[w].id] = <<[cancelled |-> TRUE]>>
        /\ limits.jobs = 1 /\ ~limits.misrouted

\* ---------------------------------------------------------------------- C39
C39_Stores == {"store_cancelled", "store_result", "store_failed"}

\* store_result_with_metrics of worker w returns Err: the SET of the result
\* key or the SET of the status key failed, so the status key is not written
C39_FailedWrite(w) ==
    pc[w] \in C39_Stores /\ Steps(w) /\ statusKey'[job[w].id] = <<>>

\* a push of worker w fails
C39_FailedPush(w) ==
    pc[w] \in {"push_retry", "push_dlq", "misrouted"} /\ Steps(w) /\ io' = "err"

\* job id j was minted, and no lane and no worker holds it
C39_Dropped(j) ==
    /\ j < nextId
    /\ Holders(j) = {}
    /\ ~InLane(mainQ, j) /\ ~InLane(retryQ, j) /\ ~InLane(dlq, j)

\* C39 as stated: a failed push or result write leaves queues and keys as they
\* were, the worker is back at the pop, and a job whose push to the retry or
\* dead-letter lane failed is given no result afterwards.
C39_AsStated ==
    [][\A w \in Workers :
          /\ (C39_FailedPush(w) \/ C39_FailedWrite(w)) => UNCHANGED store
          /\ (pc[w] = "store_failed" /\ Steps(w) /\ ~InLane(dlq, job[w].id)) =>
                resultKey' = resultKey]_vars

C39_Step(w) ==
    /\ C39_FailedPush(w) =>
          /\ UNCHANGED store
          /\ pc[w] # "push_dlq" => (pc'[w] = "pop" /\ job'[w] = NoJob)
          /\ pc[w] = "push_dlq" =>
                /\ pc'[w] = "store_failed"
                /\ result'[w].job_id = job[w].id
                /\ result'[w].overall_status = "failed"
    /\ C39_FailedWrite(w) =>
          /\ UNCHANGED <<mainQ, retryQ, dlq, statusKey, controlKey, events>>
          /\ resultKey'[job[w].id] \in {resultKey[job[w].id], <<result[w]>>}
          /\ \A j \in AllIds \ {job[w].id} : resultKey'[j] = resultKey[j]
          /\ pc'[w] = "pop" /\ job'[w] = NoJob
    /\ (pc[w] \in C39_Stores /\ Steps(w)) => pc'[w] = "pop"

C39_NotRetried ==
    \A j \in JobIds :
        C39_Dropped(j) =>
            /\ C39_Dropped(j)'
            /\ resultKey'[j] = resultKey[j]
            /\ statusKey'[j] = statusKey[j]
            /\ events'[j] = events[j]

\* C39: a store write of the worker that fails is neither fatal nor repeated.
\* A failed push leaves queues and keys as they were; after a failed push to
\* the retry lane (or of a misrouted job) the worker is back at the pop and
\* the job is gone; after a failed push to the dead-letter lane the worker
\* still writes the failed result. A failed result write leaves the queues,
\* the status key and the event count as they were, the result key being
\* written already when it was the second SET that failed, and the worker is
\* back at the pop. A job that no lane and no worker holds is never enqueued
\* again and its keys are never written again.
C39_WriteFailures == [][C39_NotRetried /\ \A w \in Workers : C39_Step(w)]_vars

\* a result write failed at its second command: the worker is back at the
\* pop, the result key of the job is written and its status key is not
C39_Witness ==
    \E j \in JobIds :
        /\ io = "err"
        /\ resultKey[j] # <<>> /\ statusKey[j] = <<>> /\ events[j] = 0
        /\ C39_Dropped(j)
        /\ \A w \in Workers : pc[w] = "pop"

\* ---------------------------------------------------------------------- C40
\* C40: for every job the front-end admits, no u32 sum of weights overflows:
\* neither evaluate nor the construction of the cancelled or failed result
\* panics, and the max_score and score they return are the exact integer sums
\* of the weights.
C40_NoOverflow ==
    sReturned.kind # "none" =>
        /\ sReturned.kind = "result"
        /\ ExactSum(sJob.test_cases) < U32Values
        /\ sReturned.value.max_score = ExactSum(sJob.test_cases)
        /\ sReturned.by = "evaluate" =>
              sReturned.value.score =
                  ExactPassed(sJob.test_cases, sReturned.value.results)

====
